---- MODULE Spec2Model ----
(***************************************************************************)
(* A model of the pynetbird HTTP client library: the error taxonomy        *)
(* (exceptions.py), the response classification and the retry loop of      *)
(* BaseClient (base.py), the configuration resolver (config.py) and the    *)
(* endpoint normalisation (utils.py).                                      *)
(*                                                                         *)
(* Python values are modelled as tagged tuples, so that values of          *)
(* different Python types can be stored in the same attribute and          *)
(* compared: None, <<"int", n>>, <<"str", s>>, <<"dict", f>> (f a function *)
(* from keys to values) and <<"list", seq>>.                               *)
(***************************************************************************)
EXTENDS Integers, Sequences, FiniteSets, TLC

VARIABLES
    call,            \* the call of a library function under study: <<name, arguments...>>
    ret,             \* its outcome: <<"pending">>, <<"return", v>> or <<"raise", exception>>
    config,          \* BaseClient.config of the client under study
    pc,              \* position of the request() call in _make_request_with_retry
    attempt,         \* loop variable of _make_request_with_retry
    last_exception,  \* local variable of _make_request_with_retry
    sleeps,          \* the delays handed to time.sleep by the call, in order
    outcomes,        \* what each call of request_func did, in order
    result,          \* how the request() call ended: <<"return", v>> or <<"raise", e>>
    _sync_client,    \* BaseClient._sync_client: None or a reference to a transport
    _async_client,   \* BaseClient._async_client: None or a reference to a transport
    transports,      \* the httpx clients created so far, in order of creation
    block,           \* the with-block the client's user is in: "none", "with", "async with"
    deleted,         \* whether the client has been torn down (__del__ has run)
    group,           \* the Group object under study
    heap,            \* the extra_headers dicts allocated so far: a reference is an index
    cli              \* the run of the command-line tool under study

vars == <<call, ret, config, pc, attempt, last_exception, sleeps, outcomes, result,
          _sync_client, _async_client, transports, block, deleted, group, heap,
          cli>>
callVars == <<call, ret>>
retryVars == <<config, pc, attempt, last_exception, sleeps, outcomes, result>>
transportVars == <<_sync_client, _async_client, transports>>
scopeVars == <<block, deleted>>
clientVars == <<retryVars, transportVars, scopeVars>>
modelVars == <<group, heap, cli>>
objectVars == <<clientVars, modelVars>>

-----------------------------------------------------------------------------
(* Python values *)

None == <<"None">>
IntV(n) == <<"int", n>>
Str(s) == <<"str", s>>
Dict(f) == <<"dict", f>>
ListV(s) == <<"list", s>>

EmptyDict == Dict([k \in {} |-> None])

IsNone(v) == v[1] = "None"
IsDict(v) == v[1] = "dict"
IsList(v) == v[1] = "list"

\* Python truthiness of a value (bool(v)).
Truthy(v) ==
    CASE v[1] = "None" -> FALSE
      [] v[1] = "int"  -> v[2] # 0
      [] v[1] = "str"  -> v[2] # ""
      [] v[1] = "dict" -> DOMAIN v[2] # {}
      [] v[1] = "list" -> Len(v[2]) > 0
      [] OTHER         -> TRUE

\* Python's `key in container` for the containers of this model: a key of a
\* dict, an element of a list.
Contains(v, key) ==
    CASE v[1] = "dict" -> key \in DOMAIN v[2]
      [] v[1] = "list" -> \E i \in 1..Len(v[2]) : v[2][i] = Str(key)
      [] OTHER         -> FALSE

\* str(v): a string stays itself, any other value is kept as its rendering.
PyStr(v) == IF v[1] \in {"str", "repr"} THEN v ELSE <<"repr", v>>

\* seq.startswith(prefix) on sequences of tokens.
StartsWith(seq, prefix) ==
    /\ Len(seq) >= Len(prefix)
    /\ \A i \in 1..Len(prefix) : seq[i] = prefix[i]

-----------------------------------------------------------------------------
(* exceptions.py: the exception classes *)

\* The attribute an exception class does not define.
Absent == <<"absent">>

\* NetBirdException.__init__(message, status_code=None, response=None), also
\* the constructor of every subclass that defines none.
NetBirdException_init(cls, message, status_code, response) ==
    [cls         |-> cls,
     message     |-> message,
     status_code |-> status_code,
     response    |-> IF Truthy(response) THEN response ELSE EmptyDict,
     retry_after |-> Absent]

\* RateLimitError.__init__(message, retry_after=None, status_code=None, response=None).
RateLimitError_init(message, retry_after, status_code, response) ==
    [NetBirdException_init("RateLimitError", message, status_code, response)
        EXCEPT !.retry_after = retry_after]

\* cls(a1, a2, a3): a class called with three positional arguments.
Construct3(cls, a1, a2, a3) ==
    IF cls = "RateLimitError"
    THEN RateLimitError_init(a1, a2, a3, None)
    ELSE NetBirdException_init(cls, a1, a2, a3)

\* The subclasses of NetBirdException that the retry loop treats as transient.
TransientClasses == {"NetworkError", "TimeoutError"}

exception_map ==
    [c \in {400, 401, 403, 404, 409, 422, 429} |->
        CASE c = 400 -> "ValidationError"
          [] c = 401 -> "AuthenticationError"
          [] c = 403 -> "AuthorizationError"
          [] c = 404 -> "ResourceNotFoundError"
          [] c = 409 -> "ConflictError"
          [] c = 422 -> "ValidationError"
          [] c = 429 -> "RateLimitError"]

\* A mutant of map_status_code_to_exception: 422 is missing from exception_map.
map_status_code_without_422(status_code, message, response) ==
    IF status_code \in DOMAIN exception_map \ {422}
    THEN Construct3(exception_map[status_code], message, IntV(status_code), response)
    ELSE IF 500 <= status_code /\ status_code < 600
    THEN NetBirdException_init("ServerError", message, IntV(status_code), response)
    ELSE NetBirdException_init("NetBirdException", message, IntV(status_code), response)

map_status_code_to_exception(status_code, message, response) ==
    IF status_code \in DOMAIN exception_map
    THEN Construct3(exception_map[status_code], message, IntV(status_code), response)
    ELSE IF 500 <= status_code /\ status_code < 600
    THEN NetBirdException_init("ServerError", message, IntV(status_code), response)
    ELSE NetBirdException_init("NetBirdException", message, IntV(status_code), response)

\* A mutant of error_fields: error is tried before message.
error_fields_error_first == <<"error", "message", "detail", "description">>

error_fields == <<"message", "error", "detail", "description">>

\* The first of error_fields, from position i on, that the response holds with a
\* truthy value; 0 when there is none.
RECURSIVE FirstErrorField(_, _)
FirstErrorField(response, i) ==
    IF i > Len(error_fields) THEN 0
    ELSE IF Contains(response, error_fields[i])
            /\ IsDict(response) /\ Truthy(response[2][error_fields[i]])
         THEN i
         ELSE FirstErrorField(response, i + 1)

format_api_error(response) ==
    IF ~Truthy(response) THEN Str("Unknown API error")
    ELSE IF FirstErrorField(response, 1) # 0
    THEN PyStr(response[2][error_fields[FirstErrorField(response, 1)]])
    ELSE IF Contains(response, "errors") /\ IsDict(response) /\ IsList(response[2]["errors"])
            /\ Truthy(response[2]["errors"])
    THEN LET first == response[2]["errors"][2][1] IN
         IF IsDict(first)
         THEN IF Contains(first, "message") THEN PyStr(first[2]["message"])
              ELSE PyStr(PyStr(first))
         ELSE PyStr(first)
    ELSE <<"fmt", "API error: ", response>>

-----------------------------------------------------------------------------
(* base.py: BaseClient._process_response *)

\* httpx.Response: status_code, headers (header name -> value, a value being a
\* sequence of tokens so that startswith is a prefix test), the body as sent
\* (<<"json", v>> parses to v, <<"text", s>> is not JSON) and reason_phrase.
HeaderGet(headers, name, default) ==
    IF name \in DOMAIN headers THEN headers[name] ELSE default

IsJsonContentType(response) ==
    StartsWith(HeaderGet(response.headers, "content-type", <<>>), <<"application/json">>)

\* response.json(): <<"return", v>>, or <<"raise", "ValueError">> for a body
\* that is not JSON.
ResponseJson(response) ==
    IF response.body[1] = "json"
    THEN <<"return", response.body[2]>>
    ELSE <<"raise", "ValueError">>

\* error_data of _process_response: the parsed body of an error response with a
\* JSON content-type, {} otherwise and when parsing fails.
ErrorData(response) ==
    IF IsJsonContentType(response) /\ ResponseJson(response)[1] = "return"
    THEN ResponseJson(response)[2]
    ELSE EmptyDict

ErrorMessage(response) ==
    IF Truthy(format_api_error(ErrorData(response)))
    THEN format_api_error(ErrorData(response))
    ELSE <<"fmt", "HTTP ", response.status_code, response.reason_phrase>>

\* A mutant of _process_response: the success range is closed at 300.
_process_response_upto_300(response) ==
    IF 200 <= response.status_code /\ response.status_code <= 300
    THEN IF IsJsonContentType(response)
         THEN IF ResponseJson(response)[1] = "return"
              THEN <<"return", ResponseJson(response)[2]>>
              ELSE <<"raise", NetBirdException_init("NetBirdException",
                                 <<"fmt", "Invalid JSON response: ", "ValueError">>, None, None)>>
         ELSE <<"return", EmptyDict>>
    ELSE <<"raise", map_status_code_to_exception(response.status_code,
                        ErrorMessage(response), ErrorData(response))>>

_process_response(response) ==
    IF 200 <= response.status_code /\ response.status_code < 300
    THEN IF IsJsonContentType(response)
         THEN IF ResponseJson(response)[1] = "return"
              THEN <<"return", ResponseJson(response)[2]>>
              ELSE <<"raise", NetBirdException_init("NetBirdException",
                                 <<"fmt", "Invalid JSON response: ", "ValueError">>, None, None)>>
         ELSE <<"return", EmptyDict>>
    ELSE <<"raise", map_status_code_to_exception(response.status_code,
                        ErrorMessage(response), ErrorData(response))>>

-----------------------------------------------------------------------------
(* The inputs of the error taxonomy and of the response classification *)

MinStatusCode == 100
MaxStatusCode == 600
StatusCodes == MinStatusCode..MaxStatusCode

NoHeaders == [h \in {} |-> <<>>]
ContentType(v) == [h \in {"content-type"} |-> v]

\* The headers of a JSON response that tells the client when to retry.
RateLimited ==
    [h \in {"content-type", "retry-after"} |->
        IF h = "content-type" THEN <<"application/json">> ELSE <<"30">>]

HeaderSets ==
    {NoHeaders,
     ContentType(<<"application/json">>),
     ContentType(<<"application/json", "; charset=utf-8">>),
     ContentType(<<"Application/JSON">>),
     ContentType(<<"text/html">>),
     RateLimited}

MessageBody == Dict([k \in {"message"} |-> Str("resource not found")])
ErrorBody == Dict([k \in {"message", "error"} |->
                      IF k = "message" THEN Str("") ELSE Str("denied")])
ListBody == ListV(<<Dict([k \in {"id"} |-> Str("p1")])>>)

JsonValues == {EmptyDict, MessageBody, ErrorBody, ListBody}

Bodies == {<<"json", v>> : v \in JsonValues} \cup {<<"text", "<html>">>, <<"text", "">>}

Responses ==
    [status_code : StatusCodes, headers : HeaderSets, body : Bodies,
     reason_phrase : {"reason"}]

Messages == {Str("Too many requests"), Str("")}

\* The response argument of map_status_code_to_exception: omitted (None) or a body.
ResponseArgs == {None} \cup JsonValues

MapCalls ==
    {<<"map_status_code_to_exception", s, m, b>> :
        s \in StatusCodes, m \in Messages, b \in ResponseArgs}

ProcessCalls == {<<"_process_response", r>> : r \in Responses}

Pending == <<"pending">>
NoCall == <<"none">>

-----------------------------------------------------------------------------
(* A client that is not making a request, and no Group: the state of the
   variables while a library function is studied on its own. *)

NoConfig == [max_retries |-> 3, retry_delay |-> 1, retry_backoff_factor |-> 2]

\* BaseClient.__init__: no transport yet; the client is in no with-block.
NoTransport ==
    /\ _sync_client = None
    /\ _async_client = None
    /\ transports = <<>>
    /\ block = "none"
    /\ deleted = FALSE

\* No Group object has been built.
NoGroup == <<"none">>

\* The command-line tool is not run.
NoCli == <<"none">>

ClientIdle ==
    /\ config = NoConfig
    /\ pc = "idle"
    /\ attempt = 0
    /\ last_exception = None
    /\ sleeps = <<>>
    /\ outcomes = <<>>
    /\ result = Pending
    /\ NoTransport
    /\ group = NoGroup
    /\ heap = <<>>
    /\ cli = NoCli

-----------------------------------------------------------------------------
(* SpecResponse: map_status_code_to_exception and _process_response applied to
   every input of MapCalls and ProcessCalls *)

InitResponse ==
    /\ call \in MapCalls \cup ProcessCalls
    /\ ret = Pending
    /\ ClientIdle

MapStatusCode ==
    /\ call[1] = "map_status_code_to_exception"
    /\ ret = Pending
    /\ ret' = <<"return", map_status_code_to_exception(call[2], call[3], call[4])>>
    /\ UNCHANGED <<call, objectVars>>

ProcessResponse ==
    /\ call[1] = "_process_response"
    /\ ret = Pending
    /\ ret' = _process_response(call[2])
    /\ UNCHANGED <<call, objectVars>>

NextResponse == MapStatusCode \/ ProcessResponse

SpecResponse == InitResponse /\ [][NextResponse]_vars

\* The error type the taxonomy of the specification gives a status code.
TaxonomyClass(s) ==
    IF s \in {400, 422} THEN "ValidationError"
    ELSE IF s = 401 THEN "AuthenticationError"
    ELSE IF s = 403 THEN "AuthorizationError"
    ELSE IF s = 404 THEN "ResourceNotFoundError"
    ELSE IF s = 409 THEN "ConflictError"
    ELSE IF s = 429 THEN "RateLimitError"
    ELSE IF s \in 500..599 THEN "ServerError"
    ELSE "NetBirdException"

Mapped == call[1] = "map_status_code_to_exception" /\ ret[1] = "return"
Processed == call[1] = "_process_response" /\ ret # Pending

\* C5: map_status_code_to_exception gives every status code the one error type
\* of the taxonomy: 400 and 422 ValidationError, 401 AuthenticationError, 403
\* AuthorizationError, 404 ResourceNotFoundError, 409 ConflictError, 429
\* RateLimitError, 500..599 ServerError, and every other code the generic base
\* error.
C5_StatusCodeClass ==
    Mapped => ret[2].cls = TaxonomyClass(call[2])

C5_Witness ==
    /\ Mapped
    /\ call[2] = 418
    /\ ret[2].cls = "NetBirdException"

\* C6: the error returned by map_status_code_to_exception(s, m, b) carries
\* status_code = s, message = m and, when a response body b is given,
\* response = b, for every error type, RateLimitError (s = 429) included.
C6_ErrorCarriesInputs ==
    Mapped =>
        /\ ret[2].status_code = IntV(call[2])
        /\ ret[2].message = call[3]
        /\ call[4] # None => ret[2].response = call[4]

Is2xx(response) == response.status_code \in 200..299

CarriedRetryAfter(response) ==
    IF "retry-after" \in DOMAIN response.headers
    THEN <<"header", response.headers["retry-after"]>>
    ELSE IF Contains(ErrorData(response), "retry_after") /\ IsDict(ErrorData(response))
    THEN ErrorData(response)[2]["retry_after"]
    ELSE None

\* C21: the RateLimitError raised for a 429 response has as retry_after the
\* retry-after value the response carries in its headers or body, and None
\* when the response carries none.
C21_RetryAfterHint ==
    Processed /\ call[2].status_code = 429 =>
        /\ ret[1] = "raise"
        /\ ret[2].cls = "RateLimitError"
        /\ ret[2].retry_after = CarriedRetryAfter(call[2])

-----------------------------------------------------------------------------
(* SpecFormat: format_api_error applied to no body, the empty body and every
   body built from the four message fields and an errors entry *)

FieldValues(f) == {Absent, None, Str(""), Str(f)}

ErrorsValues ==
    {Absent, ListV(<<>>), ListV(<<Str("first"), Str("second")>>),
     ListV(<<Dict([k \in {"message"} |-> Str("first message")]), Str("second")>>),
     ListV(<<Dict([k \in {"code"} |-> IntV(7)])>>),
     Str("not a list")}

\* The dict holding the entries of the record that are not Absent.
Present(rec) == Dict([k \in {f \in DOMAIN rec : rec[f] # Absent} |-> rec[k]])

ErrorBodies ==
    {None} \cup
    {Present(rec) :
        rec \in [message : FieldValues("message"), error : FieldValues("error"),
                 detail : FieldValues("detail"), description : FieldValues("description"),
                 errors : ErrorsValues]}

InitFormat ==
    /\ call \in {<<"format_api_error", b>> : b \in ErrorBodies}
    /\ ret = Pending
    /\ ClientIdle

FormatApiError ==
    /\ call[1] = "format_api_error"
    /\ ret = Pending
    /\ ret' = <<"return", format_api_error(call[2])>>
    /\ UNCHANGED <<call, objectVars>>

SpecFormat == InitFormat /\ [][FormatApiError]_vars

ErrorFormatted == call[1] = "format_api_error" /\ ret # Pending

\* The body holds a non-empty value under the field.
NonEmptyField(body, f) ==
    /\ f \in DOMAIN body[2]
    /\ body[2][f] \notin {None, Str("")}

\* The body holds a list with a first element under errors.
HasErrors(body) ==
    /\ "errors" \in DOMAIN body[2]
    /\ body[2]["errors"][1] = "list"
    /\ body[2]["errors"][2] # <<>>

-----------------------------------------------------------------------------
(* base.py: BaseClient.request, _sync_request and _make_request_with_retry *)

MaxRetries == 2
MaxRetryDelay == 2
MaxBackoffFactor == 3

\* The retry settings a client can hold. BaseClient(config=c) stores c as it is,
\* so max_retries can be negative.
ClientConfigs ==
    [max_retries : -1..MaxRetries,
     retry_delay : 0..MaxRetryDelay,
     retry_backoff_factor : 1..MaxBackoffFactor]

ClientStatusCodes == {200, 204, 302, 404, 429, 500, 503}

ClientResponses ==
    [status_code : ClientStatusCodes,
     headers : {NoHeaders, ContentType(<<"application/json">>)},
     body : {<<"json", MessageBody>>, <<"text", "<html>">>},
     reason_phrase : {"reason"}]

\* What self.sync_client.request(...) does in one attempt: it returns a response
\* or raises an httpx exception (with a detail that tells two failures apart).
TransportOutcomes ==
    {<<"response", r>> : r \in ClientResponses}
        \cup {<<"raise", "httpx.TimeoutException", "t">>,
              <<"raise", "httpx.NetworkError", "e1">>,
              <<"raise", "httpx.NetworkError", "e2">>,
              <<"raise", "httpx.HTTPError", "e1">>}

\* One call of _sync_request, given what the transport does.
_sync_request(outcome) ==
    IF outcome[1] = "response"
    THEN _process_response(outcome[2])
    ELSE IF outcome[2] = "httpx.TimeoutException"
    THEN <<"raise", NetBirdException_init("TimeoutError",
                        <<"fmt", "Request timed out after ", "timeout">>, None, None)>>
    ELSE IF outcome[2] = "httpx.NetworkError"
    THEN <<"raise", NetBirdException_init("NetworkError",
                        <<"fmt", "Network error: ", outcome[3]>>, None, None)>>
    ELSE <<"raise", NetBirdException_init("NetBirdException",
                        <<"fmt", "HTTP error: ", outcome[3]>>, None, None)>>

\* `raise last_exception` with last_exception = None.
RaiseNone ==
    [cls         |-> "TypeError",
     message     |-> Str("exceptions must derive from BaseException"),
     status_code |-> Absent,
     response    |-> Absent,
     retry_after |-> Absent]

RECURSIVE Pow(_, _)
Pow(b, e) == IF e = 0 THEN 1 ELSE b * Pow(b, e - 1)

\* A mutant of LoopEnd: range(self.config.max_retries).
LoopEndWithoutFirst == config.max_retries

\* range(self.config.max_retries + 1): the loop runs for attempt = 0 .. LoopEnd - 1.
LoopEnd == config.max_retries + 1

\* A mutant of Retryable: server errors are retried too.
RetryableOrServerError(e) == e.cls \in TransientClasses \cup {"ServerError"}

\* except (NetworkError, NetBirdTimeoutError)
Retryable(e) == e.cls \in TransientClasses

\* if attempt < self.config.max_retries
RetriesLeft == attempt < config.max_retries

\* A mutant of Delay: the exponent counts the attempts made, not the retries.
DelayFromOne == config.retry_delay * Pow(config.retry_backoff_factor, attempt + 1)

\* delay = retry_delay * (retry_backoff_factor ** attempt)
Delay == config.retry_delay * Pow(config.retry_backoff_factor, attempt)

\* The statement after the loop: raise last_exception, where last_exception is
\* None or <<"exc", e>>.
RaiseLast(e) == <<"raise", IF IsNone(e) THEN RaiseNone ELSE e[2]>>

MaxTransports == 3

\* httpx.Client(...) / httpx.AsyncClient(...): a new transport, open.
Transport(kind) == [kind |-> kind, is_closed |-> FALSE]

\* A reference to the i-th transport created.
Ref(i) == <<"ref", i>>

\* A mutant of sync_client: every access creates a transport.
sync_client_always_creates ==
    /\ Len(transports) < MaxTransports
    /\ transports' = Append(transports, Transport("httpx.Client"))
    /\ _sync_client' = Ref(Len(transports) + 1)

\* The property self.sync_client: it creates the transport when there is none;
\* the value of the property is _sync_client'.
sync_client ==
    IF IsNone(_sync_client)
    THEN /\ Len(transports) < MaxTransports
         /\ transports' = Append(transports, Transport("httpx.Client"))
         /\ _sync_client' = Ref(Len(transports) + 1)
    ELSE UNCHANGED <<_sync_client, transports>>

\* The property self.async_client; its value is _async_client'.
async_client ==
    IF IsNone(_async_client)
    THEN /\ Len(transports) < MaxTransports
         /\ transports' = Append(transports, Transport("httpx.AsyncClient"))
         /\ _async_client' = Ref(Len(transports) + 1)
    ELSE UNCHANGED <<_async_client, transports>>

Init ==
    /\ call = NoCall
    /\ ret = NoCall
    /\ config \in ClientConfigs
    /\ pc = "idle"
    /\ attempt = 0
    /\ last_exception = None
    /\ sleeps = <<>>
    /\ outcomes = <<>>
    /\ result = Pending
    /\ NoTransport
    /\ group = NoGroup
    /\ heap = <<>>
    /\ cli = NoCli

\* request() is called: the loop starts, or ends at once when its range is empty.
Request ==
    /\ pc = "idle"
    /\ last_exception' = None
    /\ attempt' = 0
    /\ IF 0 < LoopEnd
       THEN pc' = "sending" /\ result' = result
       ELSE pc' = "done" /\ result' = RaiseLast(None)
    /\ UNCHANGED <<config, sleeps, outcomes, callVars, transportVars, scopeVars, modelVars>>

\* One iteration of the loop up to its sleep: request_func is called (it takes
\* the transport from self.sync_client) and returns, raises a transient error or
\* raises another NetBirdException.
Send(outcome) ==
    /\ pc = "sending"
    /\ sync_client
    /\ LET r == _sync_request(outcome) IN
       /\ outcomes' = Append(outcomes, r)
       /\ IF r[1] = "return"
          THEN /\ pc' = "done"
               /\ result' = r
               /\ UNCHANGED <<last_exception, sleeps>>
          ELSE IF Retryable(r[2])
          THEN /\ last_exception' = <<"exc", r[2]>>
               /\ IF RetriesLeft
                  THEN /\ sleeps' = Append(sleeps, Delay)
                       /\ pc' = "sleeping"
                       /\ result' = result
                  ELSE /\ pc' = "done"
                       /\ result' = RaiseLast(<<"exc", r[2]>>)
                       /\ sleeps' = sleeps
          ELSE /\ pc' = "done"
               /\ result' = r
               /\ UNCHANGED <<last_exception, sleeps>>
    /\ UNCHANGED <<config, attempt, callVars, _async_client, scopeVars, modelVars>>

\* time.sleep(delay) returns and `continue` takes the loop to its next iteration,
\* or out of the loop when there is none.
Wake ==
    /\ pc = "sleeping"
    /\ attempt' = attempt + 1
    /\ IF attempt + 1 < LoopEnd
       THEN pc' = "sending" /\ result' = result
       ELSE pc' = "done" /\ result' = RaiseLast(last_exception)
    /\ UNCHANGED <<config, last_exception, sleeps, outcomes, callVars,
                   transportVars, scopeVars, modelVars>>

Next ==
    \/ Request
    \/ \E outcome \in TransportOutcomes : Send(outcome)
    \/ Wake

Spec == Init /\ [][Next]_vars

-----------------------------------------------------------------------------
(* Claims about one request() call *)

\* The error families of the specification.
TransientErrors == {"NetworkError", "TimeoutError"}
NetBirdFamily ==
    {"NetBirdException", "AuthenticationError", "AuthorizationError",
     "ResourceNotFoundError", "ValidationError", "ConflictError", "RateLimitError",
     "ServerError", "NetworkError", "TimeoutError", "ConfigurationError"}

Attempts == Len(outcomes)
FailedTransient(o) == o[1] = "raise" /\ o[2].cls \in TransientErrors
FailedTerminal(o) == o[1] = "raise" /\ o[2].cls \in NetBirdFamily \ TransientErrors
AllTransient == \A i \in 1..Attempts : FailedTransient(outcomes[i])

C2_ApiErrorNotRetried ==
    \A i \in 1..Attempts :
        FailedTerminal(outcomes[i]) =>
            /\ i = Attempts
            /\ pc = "done"
            /\ result = outcomes[i]
            /\ Len(sleeps) = i - 1

C2_Witness ==
    /\ Attempts = 3
    /\ FailedTransient(outcomes[1])
    /\ FailedTransient(outcomes[2])
    /\ outcomes[3][1] = "raise"
    /\ outcomes[3][2].cls = "ServerError"
    /\ outcomes[3][2].status_code = IntV(503)
    /\ pc = "done"
    /\ result = outcomes[3]
    /\ config.max_retries = 2

Success == result[1] = "return" /\ result = outcomes[Attempts]
TerminalFailure == result[1] = "raise" /\ FailedTerminal(result)
TransientFailureExhausted ==
    /\ result[1] = "raise"
    /\ FailedTransient(result)
    /\ Attempts = config.max_retries + 1

\* C4: every request() call goes Idle -> Sending and ends, after at least one
\* and at most max_retries + 1 attempts, in exactly one of Success,
\* TerminalFailure and TransientFailure-Exhausted.
C4_CallStateMachine ==
    pc = "done" =>
        /\ Attempts >= 1
        /\ Attempts <= config.max_retries + 1
        /\ Success \/ TerminalFailure \/ TransientFailureExhausted

\* C28: every request() call makes at least one transport attempt and ends by
\* returning a result or by raising an error of the NetBirdException family,
\* for every max_retries a client can hold; it never raises anything else,
\* such as a None last exception.
C28_EndsInFamily ==
    pc = "done" =>
        /\ Len(outcomes) >= 1
        /\ result[1] = "raise" => result[2].cls \in NetBirdFamily

-----------------------------------------------------------------------------
(* base.py: BaseClient.async_request, _async_request and
   _make_async_request_with_retry. The coroutine is suspended at two awaits:
   the round trip ("async sending") and the backoff sleep ("async sleeping"). *)

\* A mutant of _async_request: a network error is raised as the generic error.
_async_request_network_as_generic(outcome) ==
    IF outcome[1] = "response"
    THEN _process_response(outcome[2])
    ELSE IF outcome[2] = "httpx.TimeoutException"
    THEN <<"raise", NetBirdException_init("TimeoutError",
                        <<"fmt", "Request timed out after ", "timeout">>, None, None)>>
    ELSE <<"raise", NetBirdException_init("NetBirdException",
                        <<"fmt", "HTTP error: ", outcome[3]>>, None, None)>>

\* One call of _async_request, given what the transport does.
_async_request(outcome) ==
    IF outcome[1] = "response"
    THEN _process_response(outcome[2])
    ELSE IF outcome[2] = "httpx.TimeoutException"
    THEN <<"raise", NetBirdException_init("TimeoutError",
                        <<"fmt", "Request timed out after ", "timeout">>, None, None)>>
    ELSE IF outcome[2] = "httpx.NetworkError"
    THEN <<"raise", NetBirdException_init("NetworkError",
                        <<"fmt", "Network error: ", outcome[3]>>, None, None)>>
    ELSE <<"raise", NetBirdException_init("NetBirdException",
                        <<"fmt", "HTTP error: ", outcome[3]>>, None, None)>>

\* asyncio.CancelledError, raised at the await where a cancelled task is suspended.
CancelledError ==
    [cls         |-> "CancelledError",
     message     |-> Str(""),
     status_code |-> Absent,
     response    |-> Absent,
     retry_after |-> Absent]

\* async_request() is called.
AsyncRequest ==
    /\ pc = "idle"
    /\ last_exception' = None
    /\ attempt' = 0
    /\ IF 0 < LoopEnd
       THEN pc' = "async sending" /\ result' = result
       ELSE pc' = "done" /\ result' = RaiseLast(None)
    /\ UNCHANGED <<config, sleeps, outcomes, callVars, transportVars, scopeVars, modelVars>>

\* One iteration of the loop up to its sleep.
AsyncSend(outcome) ==
    /\ pc = "async sending"
    /\ async_client
    /\ LET r == _async_request(outcome) IN
       /\ outcomes' = Append(outcomes, r)
       /\ IF r[1] = "return"
          THEN /\ pc' = "done"
               /\ result' = r
               /\ UNCHANGED <<last_exception, sleeps>>
          ELSE IF Retryable(r[2])
          THEN /\ last_exception' = <<"exc", r[2]>>
               /\ IF RetriesLeft
                  THEN /\ sleeps' = Append(sleeps, Delay)
                       /\ pc' = "async sleeping"
                       /\ result' = result
                  ELSE /\ pc' = "done"
                       /\ result' = RaiseLast(<<"exc", r[2]>>)
                       /\ sleeps' = sleeps
          ELSE /\ pc' = "done"
               /\ result' = r
               /\ UNCHANGED <<last_exception, sleeps>>
    /\ UNCHANGED <<config, attempt, callVars, _sync_client, scopeVars, modelVars>>

\* await asyncio.sleep(delay) returns and `continue` takes the loop on.
AsyncWake ==
    /\ pc = "async sleeping"
    /\ attempt' = attempt + 1
    /\ IF attempt + 1 < LoopEnd
       THEN pc' = "async sending" /\ result' = result
       ELSE pc' = "done" /\ result' = RaiseLast(last_exception)
    /\ UNCHANGED <<config, last_exception, sleeps, outcomes, callVars,
                   transportVars, scopeVars, modelVars>>

\* The caller cancels the task while it is suspended in the backoff sleep.
Cancel ==
    /\ pc = "async sleeping"
    /\ pc' = "async cancelled"
    /\ UNCHANGED <<config, attempt, last_exception, sleeps, outcomes, result, callVars,
                   transportVars, scopeVars, modelVars>>

\* A mutant of AsyncCancelled: the loop goes on as if the sleep had returned.
AsyncCancelledResumes ==
    /\ pc = "async cancelled"
    /\ attempt' = attempt + 1
    /\ IF attempt + 1 < LoopEnd
       THEN pc' = "async sending" /\ result' = result
       ELSE pc' = "done" /\ result' = RaiseLast(last_exception)
    /\ UNCHANGED <<config, last_exception, sleeps, outcomes, callVars,
                   transportVars, scopeVars, modelVars>>

\* The task runs again: await asyncio.sleep(delay) raises CancelledError. The
\* await stands in the handler of `except (NetworkError, NetBirdTimeoutError)`,
\* so no except clause of the loop applies and the error leaves the call.
AsyncCancelled ==
    /\ pc = "async cancelled"
    /\ pc' = "done"
    /\ result' = <<"raise", CancelledError>>
    /\ UNCHANGED <<config, attempt, last_exception, sleeps, outcomes, callVars,
                   transportVars, scopeVars, modelVars>>

NextAsync ==
    \/ AsyncRequest
    \/ \E outcome \in TransportOutcomes : AsyncSend(outcome)
    \/ AsyncWake
    \/ Cancel
    \/ AsyncCancelled

SpecAsync == Init /\ [][NextAsync]_vars

Cancelled == result[1] = "raise" /\ result[2].cls = "CancelledError"

\* C16: a cancellation that arrives while the call is suspended in the backoff
\* sleep aborts the call: the call ends by raising the cancellation to its
\* caller, the attempts made stay those made before the sleep (one per sleep
\* started), and the call, once ended, never goes back to sending.
C16_CancelAbortsRetries ==
    /\ [][pc = "async cancelled" =>
             /\ pc' = "done"
             /\ result' = <<"raise", CancelledError>>
             /\ outcomes' = outcomes]_vars
    /\ [][pc = "done" => pc' = "done" /\ outcomes' = outcomes]_vars
    /\ [](Cancelled => pc = "done" /\ Attempts = Len(sleeps))

C16_Witness ==
    /\ pc = "done"
    /\ Cancelled
    /\ config.max_retries = 2
    /\ Attempts = 1
    /\ sleeps = <<config.retry_delay>>

-----------------------------------------------------------------------------
(* SpecBoth: one client makes a request() call and then an async_request()
   call; the transport does in the i-th attempt of either call what the script
   says, a script being a sequence of MaxRetries + 1 transport outcomes *)

ScriptOutcomes ==
    {<<"response", [status_code |-> 200, headers |-> ContentType(<<"application/json">>),
                    body |-> <<"json", MessageBody>>, reason_phrase |-> "reason"]>>,
     <<"response", [status_code |-> 404, headers |-> ContentType(<<"application/json">>),
                    body |-> <<"json", MessageBody>>, reason_phrase |-> "reason"]>>,
     <<"raise", "httpx.TimeoutException", "t">>,
     <<"raise", "httpx.NetworkError", "e1">>}

Scripts == [1..(MaxRetries + 1) -> ScriptOutcomes]

InitBoth ==
    /\ call \in {<<"script", script>> : script \in Scripts}
    /\ ret = Pending
    /\ config \in ClientConfigs
    /\ pc = "idle"
    /\ attempt = 0
    /\ last_exception = None
    /\ sleeps = <<>>
    /\ outcomes = <<>>
    /\ result = Pending
    /\ NoTransport
    /\ group = NoGroup
    /\ heap = <<>>
    /\ cli = NoCli

\* What the transport does in the next attempt of the call under way.
Scripted == call[2][Len(outcomes) + 1]

SyncRequest == ret = Pending /\ Request

\* The request() call has ended: its attempts, delays and end are noted, and
\* the client is ready for the async_request() call.
SyncEnded ==
    /\ pc = "done"
    /\ ret = Pending
    /\ ret' = <<"request", Len(outcomes), sleeps, result>>
    /\ pc' = "idle"
    /\ attempt' = 0
    /\ last_exception' = None
    /\ sleeps' = <<>>
    /\ outcomes' = <<>>
    /\ result' = Pending
    /\ UNCHANGED <<call, config, transportVars, scopeVars, modelVars>>

ThenAsyncRequest == ret # Pending /\ AsyncRequest

NextBoth ==
    \/ SyncRequest
    \/ Send(Scripted)
    \/ Wake
    \/ SyncEnded
    \/ ThenAsyncRequest
    \/ AsyncSend(Scripted)
    \/ AsyncWake

SpecBoth == InitBoth /\ [][NextBoth]_vars

BothEnded == pc = "done" /\ ret # Pending

-----------------------------------------------------------------------------
(* base.py: the life of a client's transports: the properties sync_client and
   async_client, close and aclose, the context manager and __del__ *)

\* The transports[ref] closed: httpx.Client.close() / AsyncClient.aclose().
Closed(ref) == [transports EXCEPT ![ref[2]].is_closed = TRUE]

\* BaseClient.close(); `if self._sync_client` holds for every httpx.Client.
close ==
    IF ~IsNone(_sync_client)
    THEN transports' = Closed(_sync_client) /\ _sync_client' = None
    ELSE UNCHANGED <<_sync_client, transports>>

\* BaseClient.aclose()
aclose ==
    IF ~IsNone(_async_client)
    THEN transports' = Closed(_async_client) /\ _async_client' = None
    ELSE UNCHANGED <<_async_client, transports>>

\* A mutant of __exit__: the transport is released only when the body completed.
__exit___on_success_only(exc_val) ==
    IF IsNone(exc_val) THEN close ELSE UNCHANGED <<_sync_client, transports>>

\* BaseClient.__exit__(exc_type, exc_val, exc_tb); it returns None.
__exit__(exc_val) == close

\* BaseClient.__aexit__(exc_type, exc_val, exc_tb); it returns None.
__aexit__(exc_val) == aclose

\* BaseClient.__del__(): the closed transport stays referenced.
__del__ ==
    /\ IF ~IsNone(_sync_client)
       THEN transports' = Closed(_sync_client)
       ELSE transports' = transports
    /\ UNCHANGED <<_sync_client, _async_client>>

\* How a with statement ends whose body left exc_val (None, or <<"exc", e>>) and
\* whose __exit__ returned exit_value: the exception goes on unless the value
\* is true.
WithOutcome(exc_val, exit_value) ==
    IF ~IsNone(exc_val) /\ ~Truthy(exit_value)
    THEN <<"raise", exc_val[2]>>
    ELSE <<"return", None>>

\* An exception raised by the body of a with-block, other than by a request.
BodyError ==
    [cls         |-> "ValueError",
     message     |-> Str("body"),
     status_code |-> Absent,
     response    |-> Absent,
     retry_after |-> Absent]

\* What can leave the body of a with-block now: nothing (None) or an exception
\* of its own when no request is in flight, the exception of the request that
\* has just ended otherwise.
BodyExits ==
    IF pc = "idle" THEN {None, <<"exc", BodyError>>}
    ELSE IF pc = "done" /\ result[1] = "raise" THEN {<<"exc", result[2]>>}
    ELSE {}

\* The call frame of request() is gone.
RetryIdle ==
    /\ pc' = "idle"
    /\ attempt' = 0
    /\ last_exception' = None
    /\ sleeps' = <<>>
    /\ outcomes' = <<>>
    /\ result' = Pending

LifecycleConfig == [max_retries |-> 1, retry_delay |-> 1, retry_backoff_factor |-> 2]

\* What the transport does in an attempt of the requests of this specification.
LifecycleOutcomes ==
    {<<"response", [status_code |-> 200, headers |-> NoHeaders,
                    body |-> <<"text", "<html>">>, reason_phrase |-> "reason"]>>,
     <<"response", [status_code |-> 404, headers |-> NoHeaders,
                    body |-> <<"text", "<html>">>, reason_phrase |-> "reason"]>>,
     <<"raise", "httpx.NetworkError", "e1">>}

InitLifecycle ==
    /\ call = NoCall
    /\ ret = NoCall
    /\ config = LifecycleConfig
    /\ pc = "idle"
    /\ attempt = 0
    /\ last_exception = None
    /\ sleeps = <<>>
    /\ outcomes = <<>>
    /\ result = Pending
    /\ NoTransport
    /\ group = NoGroup
    /\ heap = <<>>
    /\ cli = NoCli

\* The user reads client.sync_client.
SyncClient ==
    /\ ~deleted
    /\ pc = "idle"
    /\ sync_client
    /\ call' = <<"sync_client">>
    /\ ret' = <<"return", _sync_client'>>
    /\ UNCHANGED <<retryVars, _async_client, scopeVars, modelVars>>

\* The user reads client.async_client.
AsyncClient ==
    /\ ~deleted
    /\ pc = "idle"
    /\ async_client
    /\ call' = <<"async_client">>
    /\ ret' = <<"return", _async_client'>>
    /\ UNCHANGED <<retryVars, _sync_client, scopeVars, modelVars>>

Close ==
    /\ ~deleted
    /\ pc = "idle"
    /\ close
    /\ call' = <<"close">>
    /\ ret' = <<"return", None>>
    /\ UNCHANGED <<retryVars, _async_client, scopeVars, modelVars>>

AClose ==
    /\ ~deleted
    /\ pc = "idle"
    /\ aclose
    /\ call' = <<"aclose">>
    /\ ret' = <<"return", None>>
    /\ UNCHANGED <<retryVars, _sync_client, scopeVars, modelVars>>

\* `with client:` is entered; __enter__ returns the client.
Enter ==
    /\ ~deleted
    /\ pc = "idle"
    /\ block = "none"
    /\ block' = "with"
    /\ call' = <<"__enter__">>
    /\ ret' = <<"return", Str("self")>>
    /\ UNCHANGED <<retryVars, transportVars, deleted, modelVars>>

\* `async with client:` is entered.
AEnter ==
    /\ ~deleted
    /\ pc = "idle"
    /\ block = "none"
    /\ block' = "async with"
    /\ call' = <<"__aenter__">>
    /\ ret' = <<"return", Str("self")>>
    /\ UNCHANGED <<retryVars, transportVars, deleted, modelVars>>

\* The body of `with client:` is left, by completing or by an exception.
Exit(exc_val) ==
    /\ block = "with"
    /\ exc_val \in BodyExits
    /\ __exit__(exc_val)
    /\ block' = "none"
    /\ call' = <<"__exit__", exc_val>>
    /\ ret' = WithOutcome(exc_val, None)
    /\ RetryIdle
    /\ UNCHANGED <<config, _async_client, deleted, modelVars>>

\* The body of `async with client:` is left.
AExit(exc_val) ==
    /\ block = "async with"
    /\ exc_val \in BodyExits
    /\ __aexit__(exc_val)
    /\ block' = "none"
    /\ call' = <<"__aexit__", exc_val>>
    /\ ret' = WithOutcome(exc_val, None)
    /\ RetryIdle
    /\ UNCHANGED <<config, _sync_client, deleted, modelVars>>

\* The caller of request() or async_request() has its result or its exception
\* and goes on.
Continue ==
    /\ pc = "done"
    /\ RetryIdle
    /\ UNCHANGED <<config, callVars, transportVars, scopeVars, modelVars>>

\* The client is torn down: no with-block holds it and no call runs on it.
Del ==
    /\ ~deleted
    /\ pc = "idle"
    /\ block = "none"
    /\ __del__
    /\ deleted' = TRUE
    /\ call' = <<"__del__">>
    /\ ret' = <<"return", None>>
    /\ UNCHANGED <<retryVars, block, modelVars>>

\* The exceptions a request of this specification can end with.
RequestErrors ==
    {_sync_request(o)[2] : o \in {x \in LifecycleOutcomes : _sync_request(x)[1] = "raise"}}

ExcVals == {None} \cup {<<"exc", e>> : e \in {BodyError} \cup RequestErrors}

\* The user's program: property reads, close calls, with-blocks and requests in
\* any order, until the client is torn down.
NextLifecycle ==
    \/ SyncClient
    \/ AsyncClient
    \/ Close
    \/ AClose
    \/ Enter
    \/ AEnter
    \/ \E exc_val \in ExcVals : Exit(exc_val)
    \/ \E exc_val \in ExcVals : AExit(exc_val)
    \/ Continue
    \/ Del
    \/ ~deleted /\ Request
    \/ \E outcome \in LifecycleOutcomes : Send(outcome)
    \/ Wake
    \/ ~deleted /\ AsyncRequest
    \/ \E outcome \in LifecycleOutcomes : AsyncSend(outcome)
    \/ AsyncWake

SpecLifecycle == InitLifecycle /\ [][NextLifecycle]_vars

\* The transports of a kind that are open.
Open(kind) ==
    {i \in 1..Len(transports) : transports[i].kind = kind /\ ~transports[i].is_closed}

\* The transport a reference holds: none for None.
Held(ref) == IF IsNone(ref) THEN {} ELSE {ref[2]}

\* C13: a client holds at most one synchronous and at most one asynchronous
\* transport at any time, the one its reference names; a transport is created
\* only by an access of sync_client (async_client) that finds the reference
\* None; every later access returns that same instance; close() (aclose())
\* closes the transport and resets the reference to None, and is a no-op on a
\* client with no transport; an access after close() creates a fresh transport.
C13_OneTransportPerStyle ==
    /\ [](~deleted => /\ Open("httpx.Client") = Held(_sync_client)
                      /\ Open("httpx.AsyncClient") = Held(_async_client))
    /\ [][Len(transports') # Len(transports) =>
             /\ Len(transports') = Len(transports) + 1
             /\ SubSeq(transports', 1, Len(transports)) = transports
             /\ ~transports'[Len(transports')].is_closed
             /\ \/ /\ transports'[Len(transports')].kind = "httpx.Client"
                   /\ IsNone(_sync_client)
                   /\ _sync_client' = Ref(Len(transports'))
                \/ /\ transports'[Len(transports')].kind = "httpx.AsyncClient"
                   /\ IsNone(_async_client)
                   /\ _async_client' = Ref(Len(transports'))]_vars
    /\ [][SyncClient =>
             /\ ret' = <<"return", _sync_client'>>
             /\ ~IsNone(_sync_client')
             /\ ~IsNone(_sync_client) => UNCHANGED transportVars]_vars
    /\ [][AsyncClient =>
             /\ ret' = <<"return", _async_client'>>
             /\ ~IsNone(_async_client')
             /\ ~IsNone(_async_client) => UNCHANGED transportVars]_vars
    /\ [][Close =>
             /\ IsNone(_sync_client')
             /\ Open("httpx.Client")' = {}
             /\ IsNone(_sync_client) => UNCHANGED transportVars]_vars
    /\ [][AClose =>
             /\ IsNone(_async_client')
             /\ Open("httpx.AsyncClient")' = {}
             /\ IsNone(_async_client) => UNCHANGED transportVars]_vars

\* An access after close() has created a second synchronous transport.
C13_Witness ==
    /\ call = <<"sync_client">>
    /\ Len(transports) = 2
    /\ transports[1] = [kind |-> "httpx.Client", is_closed |-> TRUE]
    /\ transports[2] = [kind |-> "httpx.Client", is_closed |-> FALSE]
    /\ ret = <<"return", Ref(2)>>
    /\ _sync_client = Ref(2)

\* C14: when a `with client:` block is left, the sync transport is closed and
\* _sync_client is None, and when an `async with client:` block is left, the
\* async transport is closed and _async_client is None, whether the body
\* completed or raised (an error raised by a request included); an exception
\* that left the body is raised by the with statement.
C14_ContextManagerReleases ==
    /\ [][(block = "with" /\ block' # "with") =>
             /\ IsNone(_sync_client')
             /\ Open("httpx.Client")' = {}]_vars
    /\ [][(block = "async with" /\ block' # "async with") =>
             /\ IsNone(_async_client')
             /\ Open("httpx.AsyncClient")' = {}]_vars
    /\ [][(block # "none" /\ block' # block) =>
             /\ call'[1] \in {"__exit__", "__aexit__"}
             /\ (pc = "done" /\ result[1] = "raise") => ret' = result
             /\ ~IsNone(call'[2]) => ret' = <<"raise", call'[2][2]>>
             /\ IsNone(call'[2]) => ret' = <<"return", None>>]_vars

\* A `with` block was left by the NetworkError of a request that had opened the
\* sync transport.
C14_Witness ==
    /\ call[1] = "__exit__"
    /\ ~IsNone(call[2])
    /\ call[2][2].cls = "NetworkError"
    /\ ret[1] = "raise"
    /\ ret[2].cls = "NetworkError"
    /\ block = "none"
    /\ IsNone(_sync_client)
    /\ Len(transports) = 1
    /\ transports[1] = [kind |-> "httpx.Client", is_closed |-> TRUE]

\* C15: after the teardown of a client, no transport it opened is still open,
\* whichever transports it had opened and not closed.
C15_TeardownReleases ==
    deleted => \A i \in 1..Len(transports) : transports[i].is_closed

-----------------------------------------------------------------------------
(* config.py: NetBirdConfig *)

BoolV(b) == <<"bool", b>>

\* The fields of the dataclass, in declaration order.
ConfigFields ==
    <<"api_key", "api_url", "timeout", "max_retries", "retry_delay",
      "retry_backoff_factor", "verify_ssl", "user_agent", "connection_pool_size",
      "connection_pool_max_size", "enable_logging", "log_level",
      "rate_limit_requests", "rate_limit_period", "extra_headers">>

FieldNames == {ConfigFields[i] : i \in 1..Len(ConfigFields)}

\* NetBirdConfig(): every field at its class default.
NetBirdConfig ==
    [api_key                  |-> None,
     api_url                  |-> Str("https://api.netbird.io"),
     timeout                  |-> IntV(30),
     max_retries              |-> IntV(3),
     retry_delay              |-> IntV(1),
     retry_backoff_factor     |-> IntV(2),
     verify_ssl               |-> BoolV(TRUE),
     user_agent               |-> Str("PyNetBird/0.1.0"),
     connection_pool_size     |-> IntV(10),
     connection_pool_max_size |-> IntV(20),
     enable_logging           |-> BoolV(FALSE),
     log_level                |-> Str("INFO"),
     rate_limit_requests      |-> None,
     rate_limit_period        |-> None,
     extra_headers            |-> EmptyDict]

\* NetBirdConfig.from_dict(data): the known keys of data over the defaults.
from_dict(data) ==
    [f \in FieldNames |-> IF f \in DOMAIN data THEN data[f] ELSE NetBirdConfig[f]]

\* NetBirdConfig.to_dict()
to_dict(c) == [f \in FieldNames |-> c[f]]

\* int(x) for the integers and the decimal strings of this model.
PyInt(x) ==
    IF x[1] = "int" THEN x
    ELSE CASE x[2] = "3"   -> IntV(3)
           [] x[2] = "5"   -> IntV(5)
           [] x[2] = "30"  -> IntV(30)
           [] x[2] = "60"  -> IntV(60)
           [] x[2] = "120" -> IntV(120)

\* str.lower() / str.upper() for the strings of this model.
Lower(x) ==
    CASE x = "true" -> "true"
      [] x = "TRUE" -> "true"
      [] x = "false" -> "false"
      [] x = "API_Key" -> "api_key"
      [] x = "Token" -> "token"
      [] OTHER -> x

Upper(x) ==
    CASE x = "info"  -> "INFO"
      [] x = "Debug" -> "DEBUG"
      [] OTHER -> x

\* os.getenv(key, default) in the environment env (variable name -> Str value).
Getenv(env, key, default) == IF key \in DOMAIN env THEN env[key] ELSE default

EnvFlag(v) == BoolV(Lower(v[2]) \in {"true", "1", "yes", "on"})

\* _get_optional_int_env(key)
_get_optional_int_env(env, key) ==
    IF key \in DOMAIN env THEN PyInt(env[key]) ELSE None

\* NetBirdConfig.from_env(), with env the process environment.
from_env(env) ==
    [api_key                  |-> Getenv(env, "NETBIRD_API_KEY", None),
     api_url                  |-> Getenv(env, "NETBIRD_API_URL", NetBirdConfig.api_url),
     timeout                  |-> PyInt(Getenv(env, "NETBIRD_TIMEOUT", NetBirdConfig.timeout)),
     max_retries              |-> PyInt(Getenv(env, "NETBIRD_MAX_RETRIES", NetBirdConfig.max_retries)),
     retry_delay              |-> PyInt(Getenv(env, "NETBIRD_RETRY_DELAY", NetBirdConfig.retry_delay)),
     retry_backoff_factor     |-> PyInt(Getenv(env, "NETBIRD_RETRY_BACKOFF_FACTOR",
                                               NetBirdConfig.retry_backoff_factor)),
     verify_ssl               |-> EnvFlag(Getenv(env, "NETBIRD_VERIFY_SSL", Str("true"))),
     user_agent               |-> Getenv(env, "NETBIRD_USER_AGENT", NetBirdConfig.user_agent),
     connection_pool_size     |-> PyInt(Getenv(env, "NETBIRD_POOL_SIZE",
                                               NetBirdConfig.connection_pool_size)),
     connection_pool_max_size |-> PyInt(Getenv(env, "NETBIRD_POOL_MAX_SIZE",
                                               NetBirdConfig.connection_pool_max_size)),
     enable_logging           |-> EnvFlag(Getenv(env, "NETBIRD_ENABLE_LOGGING", Str("false"))),
     log_level                |-> Getenv(env, "NETBIRD_LOG_LEVEL", NetBirdConfig.log_level),
     rate_limit_requests      |-> _get_optional_int_env(env, "NETBIRD_RATE_LIMIT_REQUESTS"),
     rate_limit_period        |-> _get_optional_int_env(env, "NETBIRD_RATE_LIMIT_PERIOD"),
     extra_headers            |-> EmptyDict]

\* urllib.parse.urlparse(url), by its values on the URLs of this model.
urlparse(url) ==
    CASE url = "https://api.netbird.io" -> [scheme |-> "https", netloc |-> "api.netbird.io"]
      [] url = "https://"               -> [scheme |-> "https", netloc |-> ""]
      [] url = "//api.netbird.io"       -> [scheme |-> "", netloc |-> "api.netbird.io"]
      [] OTHER                          -> [scheme |-> "", netloc |-> ""]

valid_log_levels == {"DEBUG", "INFO", "WARNING", "ERROR", "CRITICAL"}

\* A one-element list when the condition holds: `if cond: errors.append(msg)`.
ErrorIf(cond, msg) == IF cond THEN <<msg>> ELSE <<>>

\* The errors list of NetBirdConfig.validate, in the order of its checks.
ValidationErrors(c) ==
    ErrorIf(~Truthy(c.api_key), "api_key is required")
    \o (IF ~Truthy(c.api_url)
        THEN <<"api_url is required">>
        ELSE ErrorIf(urlparse(c.api_url[2]).scheme = "" \/ urlparse(c.api_url[2]).netloc = "",
                     "Invalid API URL format"))
    \o ErrorIf(c.timeout[2] <= 0, "timeout must be positive")
    \o ErrorIf(c.max_retries[2] < 0, "max_retries must be non-negative")
    \o ErrorIf(c.retry_delay[2] < 0, "retry_delay must be non-negative")
    \o ErrorIf(c.retry_backoff_factor[2] < 1, "retry_backoff_factor must be >= 1")
    \o ErrorIf(c.connection_pool_size[2] <= 0, "connection_pool_size must be positive")
    \o ErrorIf(c.connection_pool_max_size[2] < c.connection_pool_size[2],
               "connection_pool_max_size must be >= connection_pool_size")
    \o ErrorIf(~IsNone(c.rate_limit_requests) /\ c.rate_limit_requests[2] <= 0,
               "rate_limit_requests must be positive if specified")
    \o ErrorIf(~IsNone(c.rate_limit_period) /\ c.rate_limit_period[2] <= 0,
               "rate_limit_period must be positive if specified")
    \o ErrorIf(IsNone(c.rate_limit_requests) # IsNone(c.rate_limit_period),
               "rate_limit_requests and rate_limit_period must both be specified or both be None")
    \o ErrorIf(Upper(c.log_level[2]) \notin valid_log_levels, "log_level must be one of")

\* A mutant of validate: it raises on the first violation it meets.
validate_first_error(c) ==
    IF ValidationErrors(c) # <<>>
    THEN <<"raise", NetBirdException_init("ConfigurationError",
                <<"fmt", "Configuration validation failed: ", <<Head(ValidationErrors(c))>>>>,
                None, None)>>
    ELSE <<"return", None>>

\* NetBirdConfig.validate(): returns None, or raises one ConfigurationError whose
\* message joins the errors.
validate(c) ==
    IF ValidationErrors(c) # <<>>
    THEN <<"raise", NetBirdException_init("ConfigurationError",
                <<"fmt", "Configuration validation failed: ", ValidationErrors(c)>>,
                None, None)>>
    ELSE <<"return", None>>

-----------------------------------------------------------------------------
(* SpecValidate: NetBirdConfig.validate applied to every configuration of
   ValidateConfigs *)

ValidateConfigs ==
    {[NetBirdConfig EXCEPT
        !.api_key = k, !.api_url = u, !.timeout = t, !.max_retries = m,
        !.retry_delay = d, !.retry_backoff_factor = b,
        !.connection_pool_size = ps, !.connection_pool_max_size = pm,
        !.rate_limit_requests = rr, !.rate_limit_period = rp, !.log_level = l] :
        k \in {None, Str(""), Str("test-key")},
        u \in {Str(""), Str("invalid-url"), Str("https://"), Str("https://api.netbird.io")},
        t \in {IntV(0), IntV(30)},
        m \in {IntV(-1), IntV(0)},
        d \in {IntV(-1), IntV(0)},
        b \in {IntV(0), IntV(1)},
        ps \in {IntV(0), IntV(10)},
        pm \in {IntV(5), IntV(20)},
        rr \in {None, IntV(0), IntV(100)},
        rp \in {None, IntV(0), IntV(60)},
        l \in {Str("INFO"), Str("info"), Str("TRACE")}}

InitValidate ==
    /\ call \in {<<"validate", c>> : c \in ValidateConfigs}
    /\ ret = Pending
    /\ ClientIdle

Validate ==
    /\ call[1] = "validate"
    /\ ret = Pending
    /\ ret' = validate(call[2])
    /\ UNCHANGED <<call, objectVars>>

NextValidate == Validate

SpecValidate == InitValidate /\ [][NextValidate]_vars

\* The validation rules, by name, and whether a configuration satisfies each.
RuleHolds(rule, c) ==
    CASE rule = "api_key" -> c.api_key \notin {None, Str("")}
      [] rule = "api_url" ->
            urlparse(c.api_url[2]).scheme # "" /\ urlparse(c.api_url[2]).netloc # ""
      [] rule = "timeout" -> c.timeout[2] > 0
      [] rule = "max_retries" -> c.max_retries[2] >= 0
      [] rule = "retry_delay" -> c.retry_delay[2] >= 0
      [] rule = "retry_backoff_factor" -> c.retry_backoff_factor[2] >= 1
      [] rule = "connection_pool_size" -> c.connection_pool_size[2] > 0
      [] rule = "connection_pool_max_size" ->
            c.connection_pool_max_size[2] >= c.connection_pool_size[2]
      [] rule = "rate_limit_both" ->
            (c.rate_limit_requests = None) <=> (c.rate_limit_period = None)
      [] rule = "rate_limit_requests" ->
            c.rate_limit_requests = None \/ c.rate_limit_requests[2] > 0
      [] rule = "rate_limit_period" ->
            c.rate_limit_period = None \/ c.rate_limit_period[2] > 0
      [] rule = "log_level" -> Upper(c.log_level[2]) \in {"DEBUG", "INFO", "WARNING", "ERROR", "CRITICAL"}

\* The rule an entry of the error message is about.
RuleOf(msg) ==
    CASE msg = "api_key is required" -> "api_key"
      [] msg \in {"api_url is required", "Invalid API URL format"} -> "api_url"
      [] msg = "timeout must be positive" -> "timeout"
      [] msg = "max_retries must be non-negative" -> "max_retries"
      [] msg = "retry_delay must be non-negative" -> "retry_delay"
      [] msg = "retry_backoff_factor must be >= 1" -> "retry_backoff_factor"
      [] msg = "connection_pool_size must be positive" -> "connection_pool_size"
      [] msg = "connection_pool_max_size must be >= connection_pool_size" -> "connection_pool_max_size"
      [] msg = "rate_limit_requests must be positive if specified" -> "rate_limit_requests"
      [] msg = "rate_limit_period must be positive if specified" -> "rate_limit_period"
      [] msg = "rate_limit_requests and rate_limit_period must both be specified or both be None"
            -> "rate_limit_both"
      [] msg = "log_level must be one of" -> "log_level"

\* The rules the specification lists, and the one more that validate() checks.
ListedRules ==
    {"api_key", "api_url", "timeout", "max_retries", "retry_delay",
     "retry_backoff_factor", "connection_pool_max_size", "rate_limit_both",
     "rate_limit_requests", "rate_limit_period", "log_level"}
AllRules == ListedRules \cup {"connection_pool_size"}

Violated(rules, c) == {r \in rules : ~RuleHolds(r, c)}

Validated == call[1] = "validate" /\ ret # Pending

\* The rules listed by the message of the ConfigurationError raised.
RulesInMessage == {RuleOf(ret[2].message[3][i]) : i \in 1..Len(ret[2].message[3])}

OneConfigurationError ==
    /\ ret[1] = "raise"
    /\ ret[2].cls = "ConfigurationError"
    /\ Cardinality(RulesInMessage) = Len(ret[2].message[3])

\* C10 as stated: validate() raises nothing when none of the listed rules is
\* violated, and otherwise raises one ConfigurationError whose message lists
\* every violated rule.
C10_Original ==
    Validated =>
        IF Violated(ListedRules, call[2]) = {}
        THEN ret = <<"return", None>>
        ELSE OneConfigurationError /\ Violated(ListedRules, call[2]) \subseteq RulesInMessage

\* C10 (amended): with connection_pool_size > 0 added to the rules, validate()
\* raises nothing when no rule is violated, and otherwise raises exactly one
\* ConfigurationError whose message lists each violated rule once and no other.
C10_AggregatedValidation ==
    Validated =>
        IF Violated(AllRules, call[2]) = {}
        THEN ret = <<"return", None>>
        ELSE OneConfigurationError /\ RulesInMessage = Violated(AllRules, call[2])

C10_Witness ==
    /\ Validated
    /\ call[2].api_key = None
    /\ call[2].timeout = IntV(0)
    /\ call[2].connection_pool_size = IntV(0)
    /\ ret[1] = "raise"
    /\ Len(ret[2].message[3]) >= 3

-----------------------------------------------------------------------------
(* config.py: _merge_configs and load_config *)

\* A mutant of dict.update: the entries of b replace those of a.
DictReplace(a, b) == b

\* A mutant of _merge_configs: the override always replaces the base value.
_merge_configs_override_always(base, override) ==
    from_dict([key \in FieldNames |->
        IF key = "extra_headers"
        THEN Dict([k \in DOMAIN to_dict(base)[key][2] \cup DOMAIN to_dict(override)[key][2] |->
                    IF k \in DOMAIN to_dict(override)[key][2]
                    THEN to_dict(override)[key][2][k] ELSE to_dict(base)[key][2][k]])
        ELSE to_dict(override)[key]])

\* dict.update: the entries of b over those of a.
DictUpdate(a, b) ==
    Dict([k \in DOMAIN a[2] \cup DOMAIN b[2] |->
            IF k \in DOMAIN b[2] THEN b[2][k] ELSE a[2][k]])

\* A mutant of _merge_configs: a value of the base that is not the default is kept.
_merge_configs_keep_base(base, override) ==
    from_dict([key \in FieldNames |->
        IF key = "extra_headers"
        THEN DictUpdate(to_dict(base)[key], to_dict(override)[key])
        ELSE IF to_dict(base)[key] = NetBirdConfig[key]
        THEN to_dict(override)[key]
        ELSE to_dict(base)[key]])

\* _merge_configs(base, override): the merged configuration it returns.
_merge_configs(base, override) ==
    from_dict([key \in FieldNames |->
        IF key = "extra_headers"
        THEN DictUpdate(to_dict(base)[key], to_dict(override)[key])
        ELSE IF to_dict(override)[key] # to_dict(NetBirdConfig)[key]
        THEN to_dict(override)[key]
        ELSE to_dict(base)[key]])

\* The configuration load_config validates: the defaults, then the file (when
\* config_file is given; file_data is what from_file read from it), then the
\* environment, then the overrides (when there are any).
MergedConfig(file_data, env, overrides) ==
    LET with_file == IF IsNone(file_data) THEN NetBirdConfig
                     ELSE _merge_configs(NetBirdConfig, from_dict(file_data[2]))
        with_env == _merge_configs(with_file, from_env(env))
    IN  IF DOMAIN overrides # {}
        THEN _merge_configs(with_env, from_dict(overrides))
        ELSE with_env

load_config(file_data, env, overrides) ==
    IF validate(MergedConfig(file_data, env, overrides))[1] = "raise"
    THEN validate(MergedConfig(file_data, env, overrides))
    ELSE <<"return", MergedConfig(file_data, env, overrides)>>

-----------------------------------------------------------------------------
(* SpecConfig: load_config applied to every combination of a configuration
   file, an environment and explicit overrides that set some of api_key,
   timeout and max_retries *)

Unset == <<"unset">>
SourceFields == {"api_key", "timeout", "max_retries"}

\* What one source says about the three fields: a value or Unset.
SourceChoices ==
    [api_key     : {Unset, Str("k1"), Str("k2")},
     timeout     : {Unset, IntV(30), IntV(60), IntV(120)},
     max_retries : {Unset, IntV(3), IntV(5)}]

\* The keyword arguments or file contents that set the fields chosen.
AsDict(choice) ==
    [f \in {g \in SourceFields : choice[g] # Unset} |-> choice[f]]

EnvName(f) ==
    CASE f = "api_key" -> "NETBIRD_API_KEY"
      [] f = "timeout" -> "NETBIRD_TIMEOUT"
      [] f = "max_retries" -> "NETBIRD_MAX_RETRIES"

\* The text of an environment variable that holds the value v.
EnvText(v) ==
    IF v[1] = "str" THEN v
    ELSE CASE v[2] = 3   -> Str("3")
           [] v[2] = 5   -> Str("5")
           [] v[2] = 30  -> Str("30")
           [] v[2] = 60  -> Str("60")
           [] v[2] = 120 -> Str("120")

\* The environment that sets the variables of the fields chosen.
AsEnv(choice) ==
    [v \in {EnvName(g) : g \in {h \in SourceFields : choice[h] # Unset}} |->
        EnvText(choice[CHOOSE g \in SourceFields : EnvName(g) = v])]

LoadCalls ==
    {<<"load_config", file, AsEnv(e), AsDict(o)>> :
        file \in {None} \cup {Dict(AsDict(c)) : c \in SourceChoices},
        e \in SourceChoices,
        o \in SourceChoices}

InitConfig ==
    /\ call \in LoadCalls
    /\ ret = Pending
    /\ ClientIdle

LoadConfig ==
    /\ call[1] = "load_config"
    /\ ret = Pending
    /\ ret' = load_config(call[2], call[3], call[4])
    /\ UNCHANGED <<call, objectVars>>

NextConfig == LoadConfig

SpecConfig == InitConfig /\ [][NextConfig]_vars

\* What each source supplies for field f (Unset when it supplies nothing).
FromOverrides(f) == IF f \in DOMAIN call[4] THEN call[4][f] ELSE Unset
FromEnvironment(f) ==
    IF EnvName(f) \notin DOMAIN call[3] THEN Unset
    ELSE IF f = "api_key" THEN call[3][EnvName(f)]
    ELSE PyInt(call[3][EnvName(f)])
FromFile(f) ==
    IF IsNone(call[2]) THEN Unset
    ELSE IF f \in DOMAIN call[2][2] THEN call[2][2][f] ELSE Unset

\* The sources in precedence order, highest first.
Supplied(f) == <<FromOverrides(f), FromEnvironment(f), FromFile(f)>>

\* The first value of seq outside skip, or default when there is none.
RECURSIVE FirstNotIn(_, _, _)
FirstNotIn(seq, skip, default) ==
    IF seq = <<>> THEN default
    ELSE IF Head(seq) \notin skip THEN Head(seq)
    ELSE FirstNotIn(Tail(seq), skip, default)

Loaded == call[1] = "load_config" /\ ret[1] = "return"

\* C8 as stated: every field is resolved from the highest-precedence source that
\* supplies a value for it, explicit override > environment > file > default.
C8_Original ==
    Loaded =>
        \A f \in SourceFields :
            ret[2][f] = FirstNotIn(Supplied(f), {Unset}, NetBirdConfig[f])

\* C8 (amended): every field is resolved from the highest-precedence source
\* (explicit override > environment > file) that supplies a value other than the
\* field's built-in default, and is the built-in default when no source does;
\* env NETBIRD_TIMEOUT=60 gives 120 with explicit timeout=120 and 60 with none.
C8_Precedence ==
    Loaded =>
        /\ \A f \in SourceFields :
              ret[2][f] = FirstNotIn(Supplied(f), {Unset, NetBirdConfig[f]}, NetBirdConfig[f])
        /\ \A f \in FieldNames \ SourceFields : ret[2][f] = NetBirdConfig[f]
        /\ (FromEnvironment("timeout") = IntV(60) /\ FromOverrides("timeout") = IntV(120))
              => ret[2].timeout = IntV(120)
        /\ (FromEnvironment("timeout") = IntV(60) /\ FromOverrides("timeout") = Unset)
              => ret[2].timeout = IntV(60)

C8_Witness ==
    /\ Loaded
    /\ FromFile("timeout") = IntV(120)
    /\ FromEnvironment("timeout") = IntV(60)
    /\ FromOverrides("timeout") = IntV(30)
    /\ ret[2].timeout = IntV(60)

-----------------------------------------------------------------------------
(* SpecSources: load_config applied to every combination of a configuration
   file and explicit overrides that supply extra_headers (the environment
   supplies none: from_env reads no variable for them) *)

ExtraKeys == {"X-Org", "X-Trace"}
ExtraValues == {Str("v1"), Str("v2")}

\* The header maps over ExtraKeys.
ExtraMaps ==
    {Present(rec) : rec \in [ExtraKeys -> ExtraValues \cup {Absent}]}

\* The contents of a source: an api_key or none, extra_headers or none.
SourceDicts ==
    {[f \in {g \in {"api_key", "extra_headers"} : rec[g] # Unset} |-> rec[f]] :
        rec \in [api_key : {Unset, Str("k1")}, extra_headers : {Unset} \cup ExtraMaps]}

SourcesCalls ==
    {<<"load_config", file, [v \in {} |-> Str("")], o>> :
        file \in {None} \cup {Dict(d) : d \in SourceDicts},
        o \in SourceDicts}

InitSources ==
    /\ call \in SourcesCalls
    /\ ret = Pending
    /\ ClientIdle

SpecSources == InitSources /\ [][LoadConfig]_vars

\* The extra_headers map a source supplies, the empty map when it supplies none.
FileHeaders ==
    IF IsNone(call[2]) \/ "extra_headers" \notin DOMAIN call[2][2] THEN EmptyDict
    ELSE call[2][2]["extra_headers"]
OverrideHeaders ==
    IF "extra_headers" \notin DOMAIN call[4] THEN EmptyDict
    ELSE call[4]["extra_headers"]

\* C23: the resolved extra_headers holds every key supplied by any source and
\* no other; a key supplied by several sources has the value of the source of
\* highest precedence (explicit override > file); no key of the file is dropped
\* because the overrides supply other keys.
C23_HeadersMergedByKey ==
    Loaded =>
        LET resolved == ret[2].extra_headers[2] IN
        /\ DOMAIN resolved = DOMAIN FileHeaders[2] \cup DOMAIN OverrideHeaders[2]
        /\ \A k \in DOMAIN OverrideHeaders[2] : resolved[k] = OverrideHeaders[2][k]
        /\ \A k \in DOMAIN FileHeaders[2] \ DOMAIN OverrideHeaders[2] :
              resolved[k] = FileHeaders[2][k]

\* The file supplies both keys, the overrides one of them with another value.
C23_Witness ==
    /\ Loaded
    /\ DOMAIN FileHeaders[2] = ExtraKeys
    /\ DOMAIN OverrideHeaders[2] = {"X-Org"}
    /\ OverrideHeaders[2]["X-Org"] # FileHeaders[2]["X-Org"]
    /\ ret[2].extra_headers[2]["X-Trace"] = FileHeaders[2]["X-Trace"]
    /\ ret[2].extra_headers[2]["X-Org"] = OverrideHeaders[2]["X-Org"]

-----------------------------------------------------------------------------
(* base.py: BaseClient.__init__ *)

\* BaseClient(api_key, api_url, timeout, config=cfg, **kwargs) in the
\* environment env: <<"return", self.config>> or <<"raise", error>>. cfg is
\* None or <<"config", c>>.
BaseClient_init(api_key, api_url, timeout, cfg, kwargs, env) ==
    IF ~IsNone(cfg) THEN <<"return", cfg[2]>>
    ELSE load_config(None, env,
            [k \in {"api_key", "api_url", "timeout"} \cup DOMAIN kwargs |->
                CASE k = "api_key" -> api_key
                  [] k = "api_url" -> api_url
                  [] k = "timeout" -> timeout
                  [] OTHER -> kwargs[k]])

-----------------------------------------------------------------------------
(* SpecInit: a BaseClient is constructed from a pre-built configuration, or
   from constructor parameters in an environment *)

InitUrls == {Str("https://api.netbird.io"), Str("invalid-url")}

\* The pre-built configurations handed over as config=.
PrebuiltConfigs ==
    {<<"config", [NetBirdConfig EXCEPT !.api_key = k, !.api_url = u,
                                       !.timeout = t, !.max_retries = m]>> :
        k \in {None, Str("k1")}, u \in InitUrls,
        t \in {IntV(0), IntV(30)}, m \in {IntV(-1), IntV(0), IntV(3)}}

InitKwargs ==
    {[k \in {} |-> None]} \cup
    {[k \in {"max_retries"} |-> m] : m \in {IntV(-1), IntV(5)}}

InitEnvs ==
    {[v \in {} |-> Str("")], [v \in {"NETBIRD_API_KEY"} |-> Str("k2")]}

InitCalls ==
    {<<"BaseClient", NetBirdConfig.api_key, NetBirdConfig.api_url, NetBirdConfig.timeout,
       cfg, [k \in {} |-> None], [v \in {} |-> Str("")]>> : cfg \in PrebuiltConfigs}
    \cup
    {<<"BaseClient", k, u, t, None, kw, env>> :
        k \in {None, Str("k1")}, u \in InitUrls,
        t \in {IntV(0), IntV(30), IntV(60)}, kw \in InitKwargs, env \in InitEnvs}

InitInit ==
    /\ call \in InitCalls
    /\ ret = Pending
    /\ ClientIdle

\* The constructor runs: the client holds the configuration (the retry settings
\* of it are those the retry loop reads), or no client exists.
Construct ==
    /\ call[1] = "BaseClient"
    /\ ret = Pending
    /\ ret' = BaseClient_init(call[2], call[3], call[4], call[5], call[6], call[7])
    /\ config' = IF ret'[1] = "return"
                 THEN [max_retries          |-> ret'[2].max_retries[2],
                       retry_delay          |-> ret'[2].retry_delay[2],
                       retry_backoff_factor |-> ret'[2].retry_backoff_factor[2]]
                 ELSE config
    /\ UNCHANGED <<call, pc, attempt, last_exception, sleeps, outcomes, result,
                   transportVars, scopeVars, modelVars>>

SpecInit == InitInit /\ [][Construct]_vars

Constructed == call[1] = "BaseClient" /\ ret # Pending

\* C25: constructing a BaseClient raises ConfigurationError when the
\* configuration is invalid, built from the constructor parameters or passed
\* as a pre-built object alike: every client constructed holds a
\* configuration that satisfies all validation rules (max_retries >= 0,
\* api_key present, ...).
C25_ConstructedIsValid ==
    Constructed =>
        /\ ret[1] = "raise" => ret[2].cls = "ConfigurationError"
        /\ ret[1] = "return" =>
              /\ ValidationErrors(ret[2]) = <<>>
              /\ config.max_retries >= 0
              /\ Truthy(ret[2].api_key)

-----------------------------------------------------------------------------
(* SpecMerge: _merge_configs(base, override) on configuration objects. The
   extra_headers attribute of an object is a reference to a dict of the heap;
   to_dict copies the reference, not the dict. After the merge, the caller
   sets entries of the merged configuration's extra_headers. *)

\* The configuration as a value: its extra_headers reference replaced by the
\* dict it refers to.
Deref(h, c) == [c EXCEPT !.extra_headers = h[c.extra_headers[2]]]

\* base_dict[key].update(value) for key = extra_headers: the heap after the
\* loop of _merge_configs, and after NetBirdConfig() has allocated the dict of
\* the defaults.
merge_heap(h, base, override) ==
    Append([h EXCEPT ![base.extra_headers[2]] =
                DictUpdate(h[base.extra_headers[2]], h[override.extra_headers[2]])],
           EmptyDict)

\* NetBirdConfig.from_dict(base_dict): the object returned; its extra_headers is
\* the reference base_dict holds, that of base.
merge_result(h, base, override) ==
    [_merge_configs(Deref(h, base), Deref(h, override))
        EXCEPT !.extra_headers = base.extra_headers]

MergeFields ==
    [api_key : {None, Str("k1")}, timeout : {IntV(30), IntV(50), IntV(60)},
     max_retries : {IntV(3), IntV(5)}]

\* The configuration object with the fields chosen, the others at their
\* defaults, and the dict at heap index i as extra_headers.
ConfigObject(fields, i) ==
    [f \in FieldNames |->
        IF f = "extra_headers" THEN Ref(i)
        ELSE IF f \in DOMAIN fields THEN fields[f] ELSE NetBirdConfig[f]]

InitMerge ==
    /\ call \in {<<"_merge_configs", ConfigObject(b, 1), ConfigObject(o, 2)>> :
                    b \in MergeFields, o \in MergeFields}
    /\ ret = Pending
    /\ config = NoConfig
    /\ pc = "idle"
    /\ attempt = 0
    /\ last_exception = None
    /\ sleeps = <<>>
    /\ outcomes = <<>>
    /\ result = Pending
    /\ NoTransport
    /\ group = NoGroup
    /\ heap \in {<<b, o>> : b \in ExtraMaps, o \in ExtraMaps}
    /\ cli = NoCli

MergeConfigs ==
    /\ call[1] = "_merge_configs"
    /\ ret = Pending
    /\ heap' = merge_heap(heap, call[2], call[3])
    /\ ret' = <<"return", merge_result(heap, call[2], call[3])>>
    /\ UNCHANGED <<call, clientVars, group, cli>>

\* merged.extra_headers[key] = value, by the caller of _merge_configs.
SetHeader(key, value) ==
    /\ call[1] = "_merge_configs"
    /\ ret[1] = "return"
    /\ heap' = [heap EXCEPT ![ret[2].extra_headers[2]] =
                   DictUpdate(@, Dict([k \in {key} |-> value]))]
    /\ UNCHANGED <<callVars, clientVars, group, cli>>

NextMerge ==
    \/ MergeConfigs
    \/ \E key \in ExtraKeys, value \in ExtraValues : SetHeader(key, value)

SpecMerge == InitMerge /\ [][NextMerge]_vars

ConfigsMerged == call[1] = "_merge_configs" /\ ret[1] = "return"

\* C27: a field other than extra_headers takes the override's value only when
\* that value differs from the built-in default; an override value equal to
\* the default leaves the base value, a customised one included: base timeout
\* 50 with override timeout 30 resolves to 50.
C27_DefaultNeverOverrides ==
    ConfigsMerged =>
        /\ \A f \in FieldNames \ {"extra_headers"} :
              ret[2][f] = IF call[3][f] # NetBirdConfig[f] THEN call[3][f] ELSE call[2][f]
        /\ (call[2].timeout = IntV(50) /\ call[3].timeout = IntV(30))
              => ret[2].timeout = IntV(50)

C27_Witness ==
    /\ ConfigsMerged
    /\ call[2].timeout = IntV(50)
    /\ call[3].timeout = IntV(30)
    /\ ret[2].timeout = IntV(50)

\* C30: _merge_configs leaves both inputs as they were: the call changes no
\* field of base or of override and no entry of their extra_headers dicts, and
\* a later change of the merged configuration's extra_headers does not change
\* the extra_headers of base.
C30_InputsUnchanged ==
    /\ [][(ret = Pending /\ ret' # Pending) =>
             /\ call' = call
             /\ heap'[call[2].extra_headers[2]] = heap[call[2].extra_headers[2]]
             /\ heap'[call[3].extra_headers[2]] = heap[call[3].extra_headers[2]]]_vars
    /\ [][(ret # Pending /\ heap' # heap) =>
             heap'[call[2].extra_headers[2]] = heap[call[2].extra_headers[2]]]_vars

-----------------------------------------------------------------------------
(* config.py: NetBirdConfig.get_auth_headers, and the headers _sync_request and
   _async_request hand to the transport *)

\* f'Token {self.api_key}'
TokenOf(api_key) == <<"fmt", "Token ", api_key>>

\* NetBirdConfig.get_auth_headers()
get_auth_headers(c) ==
    DictUpdate(
        Dict([h \in {"Authorization", "User-Agent", "Content-Type"} |->
                CASE h = "Authorization" -> TokenOf(c.api_key)
                  [] h = "User-Agent"    -> c.user_agent
                  [] h = "Content-Type"  -> Str("application/json")]),
        c.extra_headers)

\* A mutant of request_headers: the headers of the configuration are laid over
\* those of the call.
request_headers_config_last(c, headers) ==
    IF Truthy(headers)
    THEN DictUpdate(headers, get_auth_headers(c))
    ELSE get_auth_headers(c)

\* request_headers of _sync_request and _async_request, with headers the
\* headers argument of request() (None when the caller gives none).
request_headers(c, headers) ==
    IF Truthy(headers)
    THEN DictUpdate(get_auth_headers(c), headers)
    ELSE get_auth_headers(c)

-----------------------------------------------------------------------------
(* SpecHeaders: request_headers for every api_key, extra_headers map and
   headers argument over the header names of HeaderNames *)

HeaderNames == {"Authorization", "Content-Type", "X-Custom"}

\* The maps that give some of the header names the value v.
HeaderMaps(v) == {Dict([h \in names |-> v]) : names \in SUBSET HeaderNames}

HeaderConfigs ==
    {[NetBirdConfig EXCEPT !.api_key = k, !.extra_headers = e] :
        k \in {None, Str("k1"), Str("k2")},
        e \in HeaderMaps(Str("from extra_headers"))}

HeaderCalls ==
    {<<"request_headers", c, h>> :
        c \in HeaderConfigs,
        h \in {None} \cup HeaderMaps(Str("from headers"))}

InitHeaders ==
    /\ call \in HeaderCalls
    /\ ret = Pending
    /\ ClientIdle

RequestHeaders ==
    /\ call[1] = "request_headers"
    /\ ret = Pending
    /\ ret' = <<"return", request_headers(call[2], call[3])>>
    /\ UNCHANGED <<call, objectVars>>

NextHeaders == RequestHeaders

SpecHeaders == InitHeaders /\ [][NextHeaders]_vars

HeadersBuilt == call[1] = "request_headers" /\ ret[1] = "return"

\* The header h of the request sent has the value v.
Carries(h, v) == h \in DOMAIN ret[2][2] /\ ret[2][2][h] = v

\* The header names of a dict, none for None.
Names(d) == IF IsDict(d) THEN DOMAIN d[2] ELSE {}

\* C11 as stated: every request carries Authorization: Token <api_key>,
\* Content-Type: application/json and every configured extra header, whatever
\* the extra_headers map and the headers argument.
C11_Original ==
    HeadersBuilt =>
        /\ Carries("Authorization", TokenOf(call[2].api_key))
        /\ Carries("Content-Type", Str("application/json"))
        /\ \A h \in Names(call[2].extra_headers) :
              Carries(h, call[2].extra_headers[2][h])

\* C11 (amended): the headers of a request are those of the headers argument,
\* then the configured extra headers it does not name, then Authorization:
\* Token <api_key>, User-Agent and Content-Type: application/json where neither
\* names them, and no others: a header of the call replaces a configured one of
\* the same name, and an extra header replaces a built-in one.
C11_RequestHeaders ==
    HeadersBuilt =>
        LET extra == call[2].extra_headers
            given == call[3]
        IN  /\ \A h \in Names(given) : Carries(h, given[2][h])
            /\ \A h \in Names(extra) \ Names(given) : Carries(h, extra[2][h])
            /\ "Authorization" \notin Names(extra) \cup Names(given)
                  => Carries("Authorization", TokenOf(call[2].api_key))
            /\ "Content-Type" \notin Names(extra) \cup Names(given)
                  => Carries("Content-Type", Str("application/json"))
            /\ "User-Agent" \notin Names(extra) \cup Names(given)
                  => Carries("User-Agent", call[2].user_agent)
            /\ DOMAIN ret[2][2] =
                  {"Authorization", "User-Agent", "Content-Type"}
                      \cup Names(extra) \cup Names(given)

\* The headers argument replaced the Authorization header, and an extra header
\* the Content-Type.
C11_Witness ==
    /\ HeadersBuilt
    /\ call[2].api_key = Str("k1")
    /\ Names(call[2].extra_headers) = {"Authorization", "Content-Type"}
    /\ Names(call[3]) = {"Authorization"}
    /\ Carries("Authorization", Str("from headers"))
    /\ Carries("Content-Type", Str("from extra_headers"))

-----------------------------------------------------------------------------
(* utils.py: format_endpoint. A string is a sequence of tokens: "/", " " and
   words without slash or space ("api", "peers"). *)

RECURSIVE LStrip(_)
LStrip(str) == IF str # <<>> /\ Head(str) = " " THEN LStrip(Tail(str)) ELSE str

RECURSIVE RStrip(_)
RStrip(str) ==
    IF str # <<>> /\ str[Len(str)] = " " THEN RStrip(SubSeq(str, 1, Len(str) - 1)) ELSE str

\* str.strip()
Strip(str) == RStrip(LStrip(str))

\* re.sub(r'/+', '/', str)
RECURSIVE CollapseSlashes(_)
CollapseSlashes(str) ==
    IF Len(str) < 2 THEN str
    ELSE IF str[1] = "/" /\ str[2] = "/" THEN CollapseSlashes(Tail(str))
    ELSE <<Head(str)>> \o CollapseSlashes(Tail(str))

\* if endpoint.startswith('/'): endpoint = endpoint[1:]
DropLeadingSlash(str) == IF StartsWith(str, <<"/">>) THEN Tail(str) ELSE str

\* if not endpoint.startswith('api/'): endpoint = f"api/{endpoint}"
AddApiPrefix(str) == IF StartsWith(str, <<"api", "/">>) THEN str ELSE <<"api", "/">> \o str

\* format_endpoint(endpoint), base_url left at its default "".
format_endpoint(endpoint) ==
    CollapseSlashes(<<"/">> \o AddApiPrefix(DropLeadingSlash(Strip(endpoint))))

-----------------------------------------------------------------------------
(* SpecEndpoint: format_endpoint applied to every endpoint of at most
   MaxEndpointLen tokens *)

MaxEndpointLen == 8
EndpointTokens == {"/", " ", "api", "peers"}

Endpoints == UNION {[1..n -> EndpointTokens] : n \in 0..MaxEndpointLen}

InitEndpoint ==
    /\ call \in {<<"format_endpoint", e>> : e \in Endpoints}
    /\ ret = Pending
    /\ ClientIdle

FormatEndpoint ==
    /\ call[1] = "format_endpoint"
    /\ ret = Pending
    /\ ret' = <<"return", format_endpoint(call[2])>>
    /\ UNCHANGED <<call, objectVars>>

NextEndpoint == FormatEndpoint

SpecEndpoint == InitEndpoint /\ [][NextEndpoint]_vars

Formatted == call[1] = "format_endpoint" /\ ret[1] = "return"

ApiPeers == <<"/", "api", "/", "peers">>

\* C9: format_endpoint is idempotent; its result starts with exactly one /api/
\* prefix segment and holds no duplicate slashes; and "peers", "/peers",
\* "api/peers" and "//api//peers//" all normalize to "/api/peers".
C9_EndpointNormalForm ==
    Formatted =>
        /\ format_endpoint(ret[2]) = ret[2]
        /\ StartsWith(ret[2], <<"/", "api", "/">>)
        /\ ~StartsWith(ret[2], <<"/", "api", "/", "api", "/">>)
        /\ \A i \in 1..(Len(ret[2]) - 1) : ~(ret[2][i] = "/" /\ ret[2][i + 1] = "/")
        /\ call[2] \in {<<"peers">>, <<"/", "peers">>, <<"api", "/", "peers">>,
                        <<"/", "/", "api", "/", "/", "peers", "/", "/">>}
              => ret[2] = ApiPeers

-----------------------------------------------------------------------------
(* utils.py: mask_sensitive_data. The strings it masks are sequences of
   characters, Text(chars). *)

Text(chars) == <<"text", chars>>

\* The default of the fields argument.
default_fields ==
    {"api_key", "token", "password", "secret", "key", "authorization", "auth",
     "credentials", "private_key", "access_token", "refresh_token", "session_id"}

\* mask_char * n
Repeat(mask_char, n) == [i \in 1..n |-> mask_char]

\* str(value) for the leaf values of this model.
StrOf(value) ==
    CASE value[1] = "text" -> value
      [] value = None      -> Text(<<"N", "o", "n", "e">>)
      [] value = IntV(30)  -> Text(<<"3", "0">>)

\* value[-n:]
SliceFromEnd(value, n) ==
    IF n = 0 THEN value
    ELSE IF n > 0
    THEN SubSeq(value, (IF Len(value) > n THEN Len(value) - n ELSE 0) + 1, Len(value))
    ELSE SubSeq(value, (IF Len(value) > -n THEN -n ELSE Len(value)) + 1, Len(value))

\* _mask_value(value) of mask_sensitive_data, value a string.
_mask_value(value, mask_char, show_chars) ==
    IF Len(value[2]) <= show_chars
    THEN Text(Repeat(mask_char, Len(value[2])))
    ELSE Text(Repeat(mask_char, Len(value[2]) - show_chars)
              \o SliceFromEnd(value[2], show_chars))

\* _mask_recursive(obj) of mask_sensitive_data.
RECURSIVE _mask_recursive(_, _, _, _)
_mask_recursive(obj, fields_lower, mask_char, show_chars) ==
    CASE obj[1] = "dict" ->
            Dict([key \in DOMAIN obj[2] |->
                    IF Lower(key) \in fields_lower
                    THEN _mask_value(StrOf(obj[2][key]), mask_char, show_chars)
                    ELSE _mask_recursive(obj[2][key], fields_lower, mask_char, show_chars)])
      [] obj[1] = "list" ->
            ListV([i \in 1..Len(obj[2]) |->
                    _mask_recursive(obj[2][i], fields_lower, mask_char, show_chars)])
      [] OTHER -> obj

\* mask_sensitive_data(data, show_chars=show_chars), fields and mask_char at
\* their defaults.
mask_sensitive_data(data, show_chars) ==
    _mask_recursive(data, {Lower(f) : f \in default_fields}, "*", show_chars)

-----------------------------------------------------------------------------
(* SpecMask: mask_sensitive_data applied to a value stored under a key at
   several depths of dicts and lists, for every show_chars of 0..MaxShowChars *)

MaxSecretLen == 4
MaxShowChars == 5

Secret123456 == <<"s", "e", "c", "r", "e", "t", "1", "2", "3", "4", "5", "6">>

MaskLeaves ==
    {Text(chars) : chars \in UNION {[1..n -> {"a", "b"}] : n \in 0..MaxSecretLen}}
        \cup {Text(Secret123456), IntV(30), None}

MaskKeys == {"api_key", "API_Key", "Token", "name", "keys"}

\* {key: value}
Entry(key, value) == Dict([k \in {key} |-> value])

\* The value stored under the key: at the top, in a nested dict, in a dict of a
\* list, and in a dict of a dict of a list of a dict.
MaskData(key, value) ==
    {Entry(key, value),
     Dict([k \in {"config", "timeout"} |->
             IF k = "config" THEN Entry(key, value) ELSE IntV(30)]),
     ListV(<<Entry(key, value), Entry("name", value)>>),
     Entry("items", ListV(<<Entry("config", Entry(key, value))>>))}

MaskCalls ==
    {<<"mask_sensitive_data", data, show_chars>> :
        data \in UNION {MaskData(key, value) : key \in MaskKeys, value \in MaskLeaves},
        show_chars \in 0..MaxShowChars}

InitMask ==
    /\ call \in MaskCalls
    /\ ret = Pending
    /\ ClientIdle

MaskSensitiveData ==
    /\ call[1] = "mask_sensitive_data"
    /\ ret = Pending
    /\ ret' = <<"return", mask_sensitive_data(call[2], call[3])>>
    /\ UNCHANGED <<call, objectVars>>

SpecMask == InitMask /\ [][MaskSensitiveData]_vars

Masked == call[1] = "mask_sensitive_data" /\ ret[1] = "return"

\* The mask the specification gives a string: as long as the string, all of it
\* masked but its last show_chars characters.
ClaimedMask(chars, show_chars) ==
    IF Len(chars) <= show_chars
    THEN Repeat("*", Len(chars))
    ELSE Repeat("*", Len(chars) - show_chars)
         \o SubSeq(chars, Len(chars) - show_chars + 1, Len(chars))

\* The output is the input with every string under a sensitive key, at any
\* depth, replaced by its mask, and every other value unchanged.
RECURSIVE MaskedAsClaimed(_, _, _)
MaskedAsClaimed(in, out, show_chars) ==
    CASE in[1] = "dict" ->
            /\ out[1] = "dict"
            /\ DOMAIN out[2] = DOMAIN in[2]
            /\ \A key \in DOMAIN in[2] :
                  IF Lower(key) \in default_fields
                  THEN in[2][key][1] = "text" =>
                          out[2][key] = Text(ClaimedMask(in[2][key][2], show_chars))
                  ELSE MaskedAsClaimed(in[2][key], out[2][key], show_chars)
      [] in[1] = "list" ->
            /\ out[1] = "list"
            /\ Len(out[2]) = Len(in[2])
            /\ \A i \in 1..Len(in[2]) : MaskedAsClaimed(in[2][i], out[2][i], show_chars)
      [] OTHER -> out = in

\* C12: for every show_chars >= 0, mask_sensitive_data replaces every string
\* stored under a sensitive key (matched case-insensitively, at any depth of
\* dicts and lists) by a string of the same length that masks all but its last
\* show_chars characters (all of them when it is no longer than show_chars), and
\* returns every value under another key unchanged; {"api_key":
\* "secret123456"} with show_chars = 4 gives "********3456".
C12_MaskAllButSuffix ==
    Masked =>
        /\ MaskedAsClaimed(call[2], ret[2], call[3])
        /\ (call[2] = Entry("api_key", Text(Secret123456)) /\ call[3] = 4)
              => ret[2] = Entry("api_key",
                               Text(Repeat("*", 8) \o <<"3", "4", "5", "6">>))

-----------------------------------------------------------------------------
(* models/group.py and models/policy.py: the name validators. A name is a
   sequence of characters, " " its only whitespace. *)

NameLimit == 100

\* Group.validate_name(v): <<"return", name stored>> or <<"raise", error>>.
Group_validate_name(v) ==
    IF v = <<>> \/ Strip(v) = <<>>
    THEN <<"raise", "ValueError", "Group name cannot be empty">>
    ELSE IF Len(v) > NameLimit
    THEN <<"raise", "ValueError", "Group name too long (max 100 characters)">>
    ELSE <<"return", Strip(v)>>

\* Policy.validate_name(v)
Policy_validate_name(v) ==
    IF v = <<>> \/ Strip(v) = <<>>
    THEN <<"raise", "ValueError", "Policy name cannot be empty">>
    ELSE IF Len(v) > NameLimit
    THEN <<"raise", "ValueError", "Policy name too long (max 100 characters)">>
    ELSE <<"return", Strip(v)>>

\* PolicyRule.name: a required str field with no validator; the string given
\* is stored.
PolicyRule_name(v) == <<"return", v>>

\* The validation of the name field of a model class.
validate_name(cls, v) ==
    CASE cls = "Group"      -> Group_validate_name(v)
      [] cls = "Policy"     -> Policy_validate_name(v)
      [] cls = "PolicyRule" -> PolicyRule_name(v)

-----------------------------------------------------------------------------
(* SpecName: the name validation of Group, Policy and PolicyRule for every name
   of at most MaxCoreLen characters between its first and its last character
   other than whitespace, with at most MaxPadding blanks on either side *)

MaxCoreLen == 102
MaxPadding == 2

\* n times the character c.
Chars(c, n) == [i \in 1..n |-> c]

NameInputs ==
    {Chars(" ", l) \o Chars("a", n) \o Chars(" ", t) :
        l \in 0..MaxPadding, n \in 0..MaxCoreLen, t \in 0..MaxPadding}

InitName ==
    /\ call \in {<<"validate_name", cls, v>> :
                    cls \in {"Group", "Policy", "PolicyRule"}, v \in NameInputs}
    /\ ret = Pending
    /\ ClientIdle

ValidateName ==
    /\ call[1] = "validate_name"
    /\ ret = Pending
    /\ ret' = validate_name(call[2], call[3])
    /\ UNCHANGED <<call, objectVars>>

SpecName == InitName /\ [][ValidateName]_vars

NameValidated(classes) ==
    call[1] = "validate_name" /\ call[2] \in classes /\ ret # Pending

\* The name rule of the specification: a name that is empty after trimming or
\* longer than 100 characters is rejected, any other is stored trimmed.
NameRule ==
    IF Strip(call[3]) = <<>> \/ Len(Strip(call[3])) > 100
    THEN ret[1] = "raise"
    ELSE ret = <<"return", Strip(call[3])>>

\* C18: for Group and Policy names, the empty string, a string of whitespace
\* only and a string of 101 characters fail validation, a string of 100
\* characters succeeds, and every string with surrounding whitespace whose
\* trimmed form has 1 to 100 characters succeeds and is stored trimmed.
C18_GroupPolicyName ==
    NameValidated({"Group", "Policy"}) =>
        /\ NameRule
        /\ call[3] \in {<<>>, <<" ">>, <<" ", " ">>, Chars("a", 101)} => ret[1] = "raise"
        /\ call[3] = Chars("a", 100) => ret = <<"return", call[3]>>

\* C20: a PolicyRule whose name is empty after trimming or longer than 100
\* characters is rejected, and otherwise its name is stored trimmed.
C20_RuleName == NameValidated({"PolicyRule"}) => NameRule

-----------------------------------------------------------------------------
(* models/base.py and models/group.py: PeerRef, and the members of a Group *)

\* Validation of a value as a PeerRef (pydantic): a dict with a str under "id"
\* becomes a PeerRef, name being None when the dict has none; a bare string is
\* no valid input.
PeerRef_validate(item) ==
    IF IsDict(item) /\ Contains(item, "id") /\ item[2]["id"][1] = "str"
    THEN <<"return", [id   |-> item[2]["id"],
                      name |-> IF Contains(item, "name") THEN item[2]["name"] ELSE None]>>
    ELSE <<"raise", "ValidationError",
           "Input should be a valid dictionary or instance of PeerRef">>

\* Validation of the field peers: Optional[List[PeerRef]].
peers_validate(v) ==
    IF IsNone(v) THEN <<"return", None>>
    ELSE IF \A i \in 1..Len(v[2]) : PeerRef_validate(v[2][i])[1] = "return"
    THEN <<"return", ListV([i \in 1..Len(v[2]) |-> PeerRef_validate(v[2][i])[2]])>>
    ELSE <<"raise", "ValidationError",
           "Input should be a valid dictionary or instance of PeerRef">>

\* Group.model_validate(data), for the member information of the group: the
\* fields peers_count (alias peersCount) and peers.
Group_model_validate(data) ==
    IF peers_validate(data.peers)[1] = "return"
    THEN <<"return", <<"Group", [peers_count |-> data.peersCount,
                                 peers       |-> peers_validate(data.peers)[2]]>>>>
    ELSE peers_validate(data.peers)

\* Group.peer_ids
peer_ids(g) ==
    IF ~Truthy(g.peers) THEN <<>>
    ELSE [i \in 1..Len(g.peers[2]) |-> g.peers[2][i].id]

\* Group.has_peer(peer_id)
has_peer(g, peer_id) == \E i \in 1..Len(peer_ids(g)) : peer_ids(g)[i] = peer_id

\* Group.add_peer(peer): the group after the call.
add_peer(g, peer) ==
    LET g1 == IF IsNone(g.peers) THEN [g EXCEPT !.peers = ListV(<<>>)] ELSE g
    IN  IF ~has_peer(g1, peer.id)
        THEN [g1 EXCEPT !.peers = ListV(Append(g1.peers[2], peer)),
                        !.peers_count = Len(g1.peers[2]) + 1]
        ELSE g1

\* [p for p in self.peers if p.id != peer_id]
RECURSIVE Without(_, _)
Without(peers, peer_id) ==
    IF peers = <<>> THEN <<>>
    ELSE IF Head(peers).id # peer_id
    THEN <<Head(peers)>> \o Without(Tail(peers), peer_id)
    ELSE Without(Tail(peers), peer_id)

\* Group.remove_peer(peer_id): <<the group after the call, the value returned>>.
remove_peer(g, peer_id) ==
    IF IsNone(g.peers) THEN <<g, FALSE>>
    ELSE <<[g EXCEPT !.peers = ListV(Without(g.peers[2], peer_id)),
                     !.peers_count = Len(Without(g.peers[2], peer_id))],
           Len(Without(g.peers[2], peer_id)) < Len(g.peers[2])>>

-----------------------------------------------------------------------------
(* SpecGroup: a Group is built from API data whose peers are None or a list of
   at most MaxPeers bare ids and reference objects and whose peersCount is any
   of 0..MaxPeersCount; then peers are added and removed locally *)

MaxPeers == 3
MaxPeersCount == 3

PeerObject(id, name) ==
    Dict([k \in {"id", "name"} |-> IF k = "id" THEN Str(id) ELSE Str(name)])

PeerItems ==
    {Str("id1"), Str("id2"), PeerObject("id1", "a"), PeerObject("id2", "b"),
     Entry("name", Str("a"))}

GroupData ==
    [peersCount : 0..MaxPeersCount,
     peers : {None} \cup {ListV(l) : l \in UNION {[1..n -> PeerItems] : n \in 0..MaxPeers}}]

\* The PeerRef objects handed to add_peer, and the ids handed to remove_peer.
PeerRefs ==
    {[id |-> Str("id1"), name |-> Str("a")],
     [id |-> Str("id2"), name |-> Str("b")],
     [id |-> Str("id3"), name |-> None]}

InitGroup ==
    /\ call \in {<<"Group.model_validate", data>> : data \in GroupData}
    /\ ret = Pending
    /\ ClientIdle

ModelValidate ==
    /\ call[1] = "Group.model_validate"
    /\ ret = Pending
    /\ ret' = Group_model_validate(call[2])
    /\ group' = IF ret'[1] = "return" THEN ret'[2] ELSE NoGroup
    /\ UNCHANGED <<call, clientVars, heap, cli>>

AddPeer(peer) ==
    /\ group[1] = "Group"
    /\ group' = <<"Group", add_peer(group[2], peer)>>
    /\ call' = <<"add_peer", peer>>
    /\ ret' = <<"return", None>>
    /\ UNCHANGED <<clientVars, heap, cli>>

RemovePeer(peer_id) ==
    /\ group[1] = "Group"
    /\ group' = <<"Group", remove_peer(group[2], peer_id)[1]>>
    /\ call' = <<"remove_peer", peer_id>>
    /\ ret' = <<"return", BoolV(remove_peer(group[2], peer_id)[2])>>
    /\ UNCHANGED <<clientVars, heap, cli>>

NextGroup ==
    \/ ModelValidate
    \/ \E peer \in PeerRefs : AddPeer(peer)
    \/ \E peer \in PeerRefs : RemovePeer(peer.id)

SpecGroup == InitGroup /\ [][NextGroup]_vars

\* The number of embedded peer references of the group.
Embedded == IF IsNone(group[2].peers) THEN 0 ELSE Len(group[2].peers[2])

\* C17: after every add_peer or remove_peer call on a Group, peers_count equals
\* the number of embedded peer references, whatever the starting Group (its
\* peersCount may differ from the length of its peers list) and whatever the
\* calls (adding a member again included).
C17_PeersCountConsistent ==
    call[1] \in {"add_peer", "remove_peer"} => group[2].peers_count = Embedded

BareIds == ListV(<<Str("id1"), Str("id2")>>)
ReferenceObjects == ListV(<<PeerObject("id1", "a"), PeerObject("id2", "b")>>)

\* C19: a peer list of bare id strings, ["id1", "id2"], and the same list as
\* reference objects both validate and give the same internal shape: two
\* embedded peers, with has_peer("id1") and has_peer("id2") true.
C19_MixedReferences ==
    (/\ call[1] = "Group.model_validate"
     /\ ret # Pending
     /\ call[2].peers \in {BareIds, ReferenceObjects}) =>
        /\ ret[1] = "return"
        /\ Embedded = 2
        /\ peer_ids(group[2]) = <<Str("id1"), Str("id2")>>
        /\ has_peer(group[2], Str("id1"))
        /\ has_peer(group[2], Str("id2"))

-----------------------------------------------------------------------------
(* manage_groups.py: the command-line tool. A run is main() from the parsing
   of the arguments to the end of the process. What the API answers is kept
   to what the handlers look at: whether the answer holds the entries they
   read. *)

\* NetBirdManager._make_request, given what the requests library does:
\* <<"return", data>>, <<"exit", status>> (sys.exit) or <<"raise", exception>>.
\* A mutant: a failed request returns an empty answer.
_make_request_returns_empty(outcome) ==
    IF outcome[1] = "ok" THEN <<"return", outcome[2]>>
    ELSE IF outcome[1] = "RequestException" THEN <<"return", "empty">>
    ELSE <<"raise", outcome[1]>>

_make_request(outcome) ==
    IF outcome[1] = "ok" THEN <<"return", outcome[2]>>
    ELSE IF outcome[1] = "RequestException" THEN <<"exit", 1>>
    ELSE <<"raise", outcome[1]>>

\* The commands whose handler is one GET and a listing.
ListCommands == {"list-peers", "list-groups", "list-policies"}

\* The handler's first request point.
FirstStep(command) ==
    IF command \in ListCommands THEN "list"
    ELSE IF command = "create-group" THEN "create_group"
    ELSE "get_group"

\* The request a handler makes at a request point.
RequestAt(run) ==
    CASE run.pc = "list" ->
           <<"GET", CASE run.argv.command = "list-peers" -> "/peers"
                      [] run.argv.command = "list-groups" -> "/groups"
                      [] OTHER -> "/policies">>
      [] run.pc = "create_group" -> <<"POST", "/groups">>
      [] run.pc = "get_group" -> <<"GET", "/groups">>
      [] run.pc = "put_group" -> <<"PUT", "/groups/{id}">>
      [] run.pc = "get_policies" -> <<"GET", "/policies">>
      [] run.pc = "write_policy" ->
           IF run.existing_policy THEN <<"PUT", "/policies/{id}">> ELSE <<"POST", "/policies">>

\* What a handler does with the answer to the request made at a request point:
\* <<"goto", next request point>>, <<"return">>, <<"raise", exception>> or
\* <<"exit", status>>.
Handle(run, data) ==
    CASE run.pc = "list" ->
           IF data = "malformed" THEN <<"raise", "KeyError">> ELSE <<"return">>
      [] run.pc = "create_group" ->
           IF data = "without_id" THEN <<"raise", "KeyError">>
           ELSE IF run.argv.command = "create-group" THEN <<"return">>
           ELSE <<"goto", "put_group">>
      [] run.pc = "get_group" ->
           IF data = "malformed" THEN <<"raise", "KeyError">>
           ELSE IF data = "missing"
           THEN IF run.argv.command = "add-peers-to-group" /\ run.argv.create_group
                THEN <<"goto", "create_group">>
                ELSE <<"exit", 1>>
           ELSE IF run.argv.command = "create-policy" THEN <<"goto", "get_policies">>
           ELSE IF data = "found_objects" THEN <<"raise", "TypeError">>
           ELSE <<"goto", "put_group">>
      [] run.pc = "put_group" ->
           IF data = "without_peers" THEN <<"raise", "KeyError">> ELSE <<"return">>
      [] run.pc = "get_policies" ->
           IF data = "malformed" THEN <<"raise", "KeyError">> ELSE <<"goto", "write_policy">>
      [] run.pc = "write_policy" ->
           IF data = "without_id" THEN <<"raise", "KeyError">> ELSE <<"return">>

\* main(): how the try statement around the handlers ends the process, given
\* how the handler ended. A handler that returns lets main return.
ExitStatus(ended) ==
    CASE ended[1] = "return" -> 0
      [] ended[1] = "exit" -> ended[2]
      [] ended[1] = "raise" -> 1

\* The status of a process ended by an uncaught KeyboardInterrupt: it is
\* terminated by SIGINT (signal 2), which a parent sees as -2.
KilledBySigint == -2

\* The status argparse exits with on a usage error.
UsageError == 2

-----------------------------------------------------------------------------
(* SpecCli: every command of the tool, with and without NETBIRD_API_KEY, over
   every course of its API requests *)

Argvs ==
    {[command |-> c, create_group |-> FALSE, usage_error |-> FALSE] :
        c \in ListCommands \cup {"", "create-group", "add-peers-to-group", "create-policy"}}
    \cup {[command |-> "add-peers-to-group", create_group |-> TRUE, usage_error |-> FALSE],
          [command |-> "create-group", create_group |-> FALSE, usage_error |-> TRUE]}

\* The answers to the request of a request point, by the entries they hold.
DataAt(point) ==
    CASE point = "list" -> {"items", "empty", "malformed"}
      [] point = "create_group" -> {"with_id", "without_id"}
      [] point = "get_group" -> {"found", "found_objects", "missing", "malformed"}
      [] point = "put_group" -> {"with_peers", "without_peers"}
      [] point = "get_policies" -> {"exists", "absent", "malformed"}
      [] point = "write_policy" -> {"with_id", "without_id"}

RequestPoints ==
    {"list", "create_group", "get_group", "put_group", "get_policies", "write_policy"}

RequestOutcomes(point) ==
    {<<"ok", d>> : d \in DataAt(point)} \cup {<<"RequestException">>, <<"KeyboardInterrupt">>}

InitCli ==
    /\ call = NoCall
    /\ ret = NoCall
    /\ config = NoConfig
    /\ pc = "idle"
    /\ attempt = 0
    /\ last_exception = None
    /\ sleeps = <<>>
    /\ outcomes = <<>>
    /\ result = Pending
    /\ NoTransport
    /\ group = NoGroup
    /\ heap = <<>>
    /\ cli \in {<<"main", [argv |-> a, api_key |-> k, pc |-> "parse", requests |-> <<>>,
                          existing_policy |-> FALSE, group_missing |-> FALSE,
                          raised |-> "", status |-> 0]>> :
                    a \in Argvs, k \in BOOLEAN}

\* The process ends with the status.
Exited(run, status) == [run EXCEPT !.pc = "exited", !.status = status]

\* parser.parse_args(), and the test of args.command.
ParseArgs ==
    /\ cli[1] = "main"
    /\ cli[2].pc = "parse"
    /\ cli' = <<"main",
                IF cli[2].argv.usage_error THEN Exited(cli[2], UsageError)
                ELSE IF cli[2].argv.command = "" THEN Exited(cli[2], 0)
                ELSE [cli[2] EXCEPT !.pc = "construct"]>>
    /\ UNCHANGED <<callVars, clientVars, group, heap>>

\* manager = NetBirdManager()
NewManager ==
    /\ cli[1] = "main"
    /\ cli[2].pc = "construct"
    /\ cli' = <<"main",
                IF ~cli[2].api_key THEN Exited(cli[2], 1)
                ELSE [cli[2] EXCEPT !.pc = FirstStep(cli[2].argv.command)]>>
    /\ UNCHANGED <<callVars, clientVars, group, heap>>

\* The user interrupts the process before main has entered its try statement.
Interrupt ==
    /\ cli[1] = "main"
    /\ cli[2].pc \in {"parse", "construct"}
    /\ cli' = <<"main", Exited([cli[2] EXCEPT !.raised = "KeyboardInterrupt before try"],
                               KilledBySigint)>>
    /\ UNCHANGED <<callVars, clientVars, group, heap>>

\* The handler makes the request of its request point and goes on to its next
\* request point or ends, and main ends the process when the handler has ended.
MakeRequest ==
    /\ cli[1] = "main"
    /\ cli[2].pc \in RequestPoints
    /\ \E outcome \in RequestOutcomes(cli[2].pc) :
       LET run == cli[2]
           logged == [run EXCEPT !.requests =
                         Append(@, [request |-> RequestAt(run), outcome |-> outcome[1]])]
           r == _make_request(outcome)
           ended == IF r[1] = "return" THEN Handle(run, r[2]) ELSE r
           noted == [logged EXCEPT
                        !.existing_policy = r[1] = "return" /\ r[2] = "exists",
                        !.group_missing = @ \/ (r[1] = "return" /\ ended[1] = "exit"),
                        !.raised = IF ended[1] = "raise" THEN ended[2] ELSE @]
       IN  cli' = <<"main",
                    IF ended[1] = "goto" THEN [noted EXCEPT !.pc = ended[2]]
                    ELSE Exited(noted, ExitStatus(ended))>>
    /\ UNCHANGED <<callVars, clientVars, group, heap>>

NextCli ==
    \/ ParseArgs
    \/ NewManager
    \/ Interrupt
    \/ MakeRequest

SpecCli == InitCli /\ [][NextCli]_vars

CliExited == cli[1] = "main" /\ cli[2].pc = "exited"

\* What happened in the run.
RequestFailed ==
    \E i \in 1..Len(cli[2].requests) : cli[2].requests[i].outcome = "RequestException"
UserCancelled ==
    cli[2].raised \in {"KeyboardInterrupt", "KeyboardInterrupt before try"}
ExceptionEscaped == cli[2].raised \in {"KeyError", "TypeError"}
RequiredGroupMissing == cli[2].group_missing

\* After a failed request the command issues no request.
NoRequestAfterFailure ==
    \A i \in 1..Len(cli[2].requests) :
        cli[2].requests[i].outcome = "RequestException" => i = Len(cli[2].requests)

\* C26 as stated: the tool exits with status 1 whenever an API request fails,
\* an exception escapes a command handler, a required group does not exist or
\* the user cancels, and with status 0 otherwise; after a failed request no
\* later request of the command is issued.
C26_Original ==
    CliExited =>
        /\ cli[2].status =
              IF RequestFailed \/ ExceptionEscaped \/ RequiredGroupMissing \/ UserCancelled
              THEN 1 ELSE 0
        /\ NoRequestAfterFailure

\* C26 (amended): a usage error of the command line exits with status 2; an
\* interrupt before a command handler runs ends the process by SIGINT; no
\* command exits with 0; a missing NETBIRD_API_KEY exits with 1; and a command
\* that runs exits with 1 whenever an API request fails, an exception escapes
\* the handler, a required group does not exist or the user cancels, and with
\* 0 otherwise; after a failed request no later request is issued.
C26_ExitStatus ==
    CliExited =>
        /\ cli[2].status =
              IF cli[2].raised = "KeyboardInterrupt before try" THEN KilledBySigint
              ELSE IF cli[2].argv.usage_error THEN UsageError
              ELSE IF cli[2].argv.command = "" THEN 0
              ELSE IF ~cli[2].api_key THEN 1
              ELSE IF RequestFailed \/ ExceptionEscaped \/ RequiredGroupMissing
                      \/ UserCancelled
              THEN 1 ELSE 0
        /\ NoRequestAfterFailure

\* add-peers-to-group --create-group: the group was missing and created, and
\* the request that updates it failed.
C26_Witness ==
    /\ CliExited
    /\ cli[2].argv.command = "add-peers-to-group"
    /\ Len(cli[2].requests) = 3
    /\ cli[2].requests[2].request = <<"POST", "/groups">>
    /\ cli[2].requests[3] = [request |-> <<"PUT", "/groups/{id}">>, outcome |-> "RequestException"]
    /\ cli[2].status = 1

-----------------------------------------------------------------------------
(* models/peer.py, models/policy.py, models/group.py: the validators of the
   enum-like string fields. A string is the sequence of its characters; an
   enum member is named by its class and its value. *)

LowerCase ==
    <<"a", "b", "c", "d", "e", "f", "g", "h", "i", "j", "k", "l", "m",
      "n", "o", "p", "q", "r", "s", "t", "u", "v", "w", "x", "y", "z">>
UpperCase ==
    <<"A", "B", "C", "D", "E", "F", "G", "H", "I", "J", "K", "L", "M",
      "N", "O", "P", "Q", "R", "S", "T", "U", "V", "W", "X", "Y", "Z">>

\* A mutant of LowerChar: no character is changed.
LowerCharIdentity(c) == c

\* str.lower(), character by character.
LowerChar(c) ==
    IF \E i \in 1..Len(UpperCase) : UpperCase[i] = c
    THEN LowerCase[CHOOSE i \in 1..Len(UpperCase) : UpperCase[i] = c]
    ELSE c

lower(chars) == [i \in 1..Len(chars) |-> LowerChar(chars[i])]

\* The values of the enum classes.
PeerOS ==
    {<<"l", "i", "n", "u", "x">>, <<"w", "i", "n", "d", "o", "w", "s">>, <<"d", "a", "r", "w", "i", "n">>, <<"a", "n", "d", "r", "o", "i", "d">>, <<"i", "o", "s">>, <<"u", "n", "k", "n", "o", "w", "n">>}
PolicyProtocol == {<<"a", "l", "l">>, <<"t", "c", "p">>, <<"u", "d", "p">>, <<"i", "c", "m", "p">>}
PolicyAction == {<<"a", "c", "c", "e", "p", "t">>, <<"d", "r", "o", "p">>}
GroupType == {<<"s", "t", "a", "n", "d", "a", "r", "d">>, <<"a", "l", "l">>, <<"s", "y", "s", "t", "e", "m">>}

Member(cls, value) == <<"enum", cls, value>>

\* The loop of the four validators: the member whose value is v.lower(), the
\* default when there is none; None stays None.
ParseMember(cls, members, default, v) ==
    IF IsNone(v) THEN None
    ELSE IF lower(v[2]) \in members THEN Member(cls, lower(v[2]))
    ELSE Member(cls, default)

\* Peer.parse_os
parse_os(v) == ParseMember("PeerOS", PeerOS, <<"u", "n", "k", "n", "o", "w", "n">>, v)

\* PolicyRule.parse_protocol: None gives the default as well.
parse_protocol(v) ==
    IF IsNone(v) THEN Member("PolicyProtocol", <<"a", "l", "l">>)
    ELSE ParseMember("PolicyProtocol", PolicyProtocol, <<"a", "l", "l">>, v)

\* PolicyRule.parse_action: None gives the default as well.
parse_action(v) ==
    IF IsNone(v) THEN Member("PolicyAction", <<"a", "c", "c", "e", "p", "t">>)
    ELSE ParseMember("PolicyAction", PolicyAction, <<"a", "c", "c", "e", "p", "t">>, v)

\* Group.parse_group_type
parse_group_type(v) == ParseMember("GroupType", GroupType, <<"s", "t", "a", "n", "d", "a", "r", "d">>, v)

-----------------------------------------------------------------------------
(* SpecEnum: the four validators applied to None, to every known value with
   at most MaxUpperCase of its letters (or all of them) in upper case, and to
   strings that are no known value *)

MaxUpperCase == 2

\* The word with the letters at the positions in upper case.
UpperOf(c) ==
    IF \E i \in 1..Len(LowerCase) : LowerCase[i] = c
    THEN UpperCase[CHOOSE i \in 1..Len(LowerCase) : LowerCase[i] = c]
    ELSE c

WithCase(word, positions) ==
    [i \in 1..Len(word) |-> IF i \in positions THEN UpperOf(word[i]) ELSE word[i]]

Spellings(word) ==
    {WithCase(word, positions) :
        positions \in {S \in SUBSET (1..Len(word)) :
                          Cardinality(S) <= MaxUpperCase \/ S = 1..Len(word)}}

UnknownWords ==
    {<<>>, <<"f", "r", "e", "e", "b", "s", "d">>, <<"g", "r", "e">>, <<" ">> \o <<"t", "c", "p">>, <<"t", "c", "p">> \o <<"x">>}

EnumFields == {"os", "protocol", "action", "group_type"}

MembersOf(field) ==
    CASE field = "os" -> PeerOS
      [] field = "protocol" -> PolicyProtocol
      [] field = "action" -> PolicyAction
      [] field = "group_type" -> GroupType

EnumCalls ==
    {<<"parse", field, v>> :
        field \in EnumFields,
        v \in {None} \cup {Text(chars) :
                  chars \in UnknownWords \cup
                            UNION {Spellings(word) :
                                      word \in PeerOS \cup PolicyProtocol
                                               \cup PolicyAction \cup GroupType}}}

InitEnum ==
    /\ call \in EnumCalls
    /\ ret = Pending
    /\ ClientIdle

ParseField ==
    /\ call[1] = "parse"
    /\ ret = Pending
    /\ ret' = <<"return",
                CASE call[2] = "os" -> parse_os(call[3])
                  [] call[2] = "protocol" -> parse_protocol(call[3])
                  [] call[2] = "action" -> parse_action(call[3])
                  [] call[2] = "group_type" -> parse_group_type(call[3])>>
    /\ UNCHANGED <<call, objectVars>>

SpecEnum == InitEnum /\ [][ParseField]_vars

FieldParsed == call[1] = "parse" /\ ret # Pending /\ ~IsNone(call[3])

\* The word spells the value, letter case apart.
Spells(word, value) ==
    /\ Len(word) = Len(value)
    /\ \A i \in 1..Len(word) : word[i] \in {value[i], UpperOf(value[i])}

\* C24: a string given for an enum-like field never fails validation: a known
\* value in any letter case gives that value, and an unknown string gives
\* 'unknown' for the OS, 'all' for the protocol, 'accept' for the action and
\* 'standard' for the group type.
C24_EnumFieldsDegrade ==
    FieldParsed =>
        /\ ret[1] = "return"
        /\ ret[2][1] = "enum"
        /\ \A value \in MembersOf(call[2]) :
              Spells(call[3][2], value) => ret[2][3] = value
        /\ (\A value \in MembersOf(call[2]) : ~Spells(call[3][2], value)) =>
              ret[2][3] = CASE call[2] = "os" -> <<"u", "n", "k", "n", "o", "w", "n">>
                            [] call[2] = "protocol" -> <<"a", "l", "l">>
                            [] call[2] = "action" -> <<"a", "c", "c", "e", "p", "t">>
                            [] call[2] = "group_type" -> <<"s", "t", "a", "n", "d", "a", "r", "d">>

\* "LInux" as OS gives linux.
C24_Witness ==
    /\ FieldParsed
    /\ call[2] = "os"
    /\ call[3][2] = <<"L", "I", "n", "u", "x">>
    /\ ret[2] = Member("PeerOS", <<"l", "i", "n", "u", "x">>)

====
